---------------------------- MODULE Spec2Model ----------------------------
(***************************************************************************)
(* A model of the DBLP scraper repository:                                 *)
(*   - conf_scrapper.py: the link classifier, the record classifier and    *)
(*     extractor, the two deduplicators and the run_scraper pipeline;      *)
(*   - get_countries_conf_updated.py: the two-tier author-country          *)
(*     resolver with its caches, and the script that runs it;              *)
(*   - dblp_journals_scrapper.py: the volume context of a journal paper.   *)
(* Python strings are sequences of one-character strings, so that `in`,    *)
(* lower(), strip() and len() are computed as Python computes them.        *)
(***************************************************************************)
EXTENDS Integers, Sequences, FiniteSets, TLC

VARIABLES
    \* link classifier: the URL given, the value returned, the call's position
    url, linkResult, linkPc,
    \* record extractor: the DOM node given, is_paper_entry's and
    \* extract_paper_data's results, the selectors the title chain queried
    elem, isPaper, paperData, queried, entryPc,
    \* record-level deduplicator: the extracted records, the list after one
    \* pass, the list after a second pass over that list
    dedupIn, dedupOut, dedupOut2, dedupPc,
    \* link discovery: the seed page loaded, the list
    \* scrape_conference_content_links returned
    seedPage, contentLinks, linksPc,
    \* run_scraper: the seeds still to process, the content links of the
    \* current seed and the next one to process, the records returned by the
    \* last scrape_papers_from_content_page, all_papers, whether DBLP.db with
    \* its conf_papers table exists, and every row written to conf_papers
    conferences, content_links, linkIdx, lastPapers, all_papers, dbExists, db,
    runPc,
    \* run_scraper: what goes wrong with DBLP.db when it exists, every INSERT
    \* the run tried with its outcome, the seeds and content links visited,
    \* and the page the last content link loaded
    dbFault, attempts, visits, lastPage,
    \* country resolver: the two caches of AuthorCountryLookup, every request
    \* sent to the two services, the number of get_author_country calls made,
    \* the last call (its arguments, its outcome, the caches and the request
    \* log as they were before it), and what the services answer
    author_cache, paper_cache, requests, calls, lastCall, world,
    \* resolver script: the rows read from conf_papers, the script's
    \* position, the index of the batch loop, its counters and lists, the
    \* countries of the second pass in most_common order with the indexes of
    \* its two loops, the papers collected for the current country, what was
    \* collected for the countries done, and the CSV report
    batchRows, batchPc, rowIdx, total_lookups, successful_lookups,
    country_counter, no_country_found, ranking, countryIdx, passIdx,
    country_papers, listed, csvfile,
    \* what get_author_country returned to the batch loop, call by call
    loopOutcomes,
    \* journal scraper: the text of a volume link, the volume_info passed
    \* on, the branch that set its year, the text of a paper element, the
    \* year and volume extract_journal_paper_info gave it, the position
    volumeText, volumeInfo, yearPath, paperText, journalPaper, journalPc,
    \* journal scraper: the text of the first title element the selectors
    \* find in the paper element, the list scrape_papers_from_volume builds,
    \* and the rows inserted into journal_papers
    titleText, volume_papers, journal_papers,
    \* pacing: the page loads of run_scraper and its time.sleep calls, in
    \* the order they happen; the lookup requests of the resolver script
    \* (each named by its API) and its time.sleep calls, in order
    pageTimeline, apiTimeline

linkVars == <<url, linkResult, linkPc>>

entryVars == <<elem, isPaper, paperData, queried, entryPc>>

dedupVars == <<dedupIn, dedupOut, dedupOut2, dedupPc>>

discoveryVars == <<seedPage, contentLinks, linksPc>>

runVars ==
    <<conferences, content_links, linkIdx, lastPapers, all_papers, dbExists, db,
      runPc, dbFault, attempts, visits, lastPage, pageTimeline>>

resolverVars == <<author_cache, paper_cache, requests, calls, lastCall, world>>

batchVars ==
    <<batchRows, batchPc, rowIdx, total_lookups, successful_lookups,
      country_counter, no_country_found, ranking, countryIdx, passIdx,
      country_papers, listed, csvfile, loopOutcomes, apiTimeline>>

journalVars ==
    <<volumeText, volumeInfo, yearPath, paperText, journalPaper, journalPc,
      titleText, volume_papers, journal_papers>>

scraperVars ==
    <<linkVars, entryVars, dedupVars, discoveryVars, runVars, journalVars>>

vars ==
    <<linkVars, entryVars, dedupVars, discoveryVars, runVars, resolverVars,
      batchVars, journalVars>>

nonLinkVars ==
    <<entryVars, dedupVars, discoveryVars, runVars, resolverVars, batchVars,
      journalVars>>

nonEntryVars ==
    <<linkVars, dedupVars, discoveryVars, runVars, resolverVars, batchVars,
      journalVars>>

nonDedupVars ==
    <<linkVars, entryVars, discoveryVars, runVars, resolverVars, batchVars,
      journalVars>>

nonDiscoveryVars ==
    <<linkVars, entryVars, dedupVars, runVars, resolverVars, batchVars,
      journalVars>>

nonRunVars ==
    <<linkVars, entryVars, dedupVars, discoveryVars, resolverVars, batchVars,
      journalVars>>

nonResolverVars == <<scraperVars, batchVars>>

nonJournalVars ==
    <<linkVars, entryVars, dedupVars, discoveryVars, runVars, resolverVars,
      batchVars>>

(***************************************************************************)
(* Bounds of the model.                                                    *)
(***************************************************************************)
MaxFrags == 2

MaxAuthors == 1

MaxPapers == 3

MaxEntries == 2

MaxAnchors == 2

MaxConfs == 2

MaxCalls == 3

MaxRows == 2

\* pieces in a volume link text
MaxVolumeFrags == 2

(***************************************************************************)
(* Python str operations.                                                  *)
(***************************************************************************)
\* The value None (an absent attribute); no Python string equals it.
NoneVal == <<"<None>">>

(***************************************************************************)
(* The state of a component that a specification does not exercise.        *)
(***************************************************************************)
NoPaper ==
    [ name |-> NoneVal, authors |-> NoneVal, conference_href |-> NoneVal,
      paper_href |-> NoneVal, created_at |-> NoneVal,
      conference_processed |-> NoneVal ]

NoElement ==
    [ classes |-> NoneVal, authorElems |-> <<>>, spanTitle |-> NoneVal,
      headline |-> FALSE, cite |-> NoneVal, recHref |-> NoneVal,
      stale |-> FALSE ]

IdleLink ==
    /\ url = NoneVal
    /\ linkResult = FALSE
    /\ linkPc = "idle"

IdleEntry ==
    /\ elem = NoElement
    /\ isPaper = FALSE
    /\ paperData = NoPaper
    /\ queried = {}
    /\ entryPc = "idle"

IdleDedup ==
    /\ dedupIn = <<>>
    /\ dedupOut = <<>>
    /\ dedupOut2 = <<>>
    /\ dedupPc = "idle"

NoSeedPage == [entries |-> <<>>, others |-> <<>>, fault |-> "none"]

IdleDiscovery ==
    /\ seedPage = NoSeedPage
    /\ contentLinks = <<>>
    /\ linksPc = "idle"

\* a database that opens, has the conf_papers table and rejects no row
NoFault == [opens |-> TRUE, hasTable |-> TRUE, rejects |-> {}]

NoPage == [elements |-> <<>>, fault |-> "none"]

IdleRun ==
    /\ conferences = <<>>
    /\ content_links = <<>>
    /\ linkIdx = 0
    /\ lastPapers = <<>>
    /\ all_papers = <<>>
    /\ dbExists = FALSE
    /\ db = <<>>
    /\ runPc = "idle"
    /\ dbFault = NoFault
    /\ attempts = <<>>
    /\ visits = <<>>
    /\ lastPage = NoPage
    /\ pageTimeline = <<>>

\* {}
EmptyDict == [k \in {} |-> NoneVal]

NoS2Paper ==
    [title |-> NoneVal, authors |-> [kind |-> "missing", items |-> <<>>]]

NoCall ==
    [ title |-> NoneVal, authors_str |-> NoneVal, result |-> NoneVal,
      raised |-> FALSE, author_cache |-> EmptyDict, paper_cache |-> EmptyDict,
      requests |-> <<>> ]

NoWorld == [openalex |-> EmptyDict, s2 |-> EmptyDict]

IdleResolver ==
    /\ author_cache = EmptyDict
    /\ paper_cache = EmptyDict
    /\ requests = <<>>
    /\ calls = 0
    /\ lastCall = NoCall
    /\ world = NoWorld

\* no CSV file has been written
NoCsv == [written |-> FALSE, rows |-> <<>>]

IdleJournal ==
    /\ volumeText = NoneVal
    /\ volumeInfo = [isNone |-> TRUE, items |-> EmptyDict]
    /\ yearPath = "none"
    /\ paperText = NoneVal
    /\ journalPaper = [title |-> NoneVal, year |-> NoneVal, volume |-> NoneVal]
    /\ journalPc = "idle"
    /\ titleText = NoneVal
    /\ volume_papers = <<>>
    /\ journal_papers = <<>>

IdleBatch ==
    /\ batchRows = <<>>
    /\ batchPc = "idle"
    /\ rowIdx = 0
    /\ total_lookups = 0
    /\ successful_lookups = 0
    /\ country_counter = <<>>
    /\ no_country_found = <<>>
    /\ ranking = <<>>
    /\ countryIdx = 0
    /\ passIdx = 0
    /\ country_papers = <<>>
    /\ listed = <<>>
    /\ csvfile = NoCsv
    /\ loopOutcomes = <<>>
    /\ apiTimeline = <<>>

(***************************************************************************)
(* Letter case.                                                            *)
(***************************************************************************)
UpperLetters ==
    <<"A","B","C","D","E","F","G","H","I","J","K","L","M",
      "N","O","P","Q","R","S","T","U","V","W","X","Y","Z">>

LowerLetters ==
    <<"a","b","c","d","e","f","g","h","i","j","k","l","m",
      "n","o","p","q","r","s","t","u","v","w","x","y","z">>

LowerChar(c) ==
    IF \E i \in 1..26 : UpperLetters[i] = c
    THEN LowerLetters[CHOOSE i \in 1..26 : UpperLetters[i] = c]
    ELSE c

UpperChar(c) ==
    IF \E i \in 1..26 : LowerLetters[i] = c
    THEN UpperLetters[CHOOSE i \in 1..26 : LowerLetters[i] = c]
    ELSE c

\* str.lower()
Lower(s) == [i \in 1..Len(s) |-> LowerChar(s[i])]

\* str.upper(); used only to build inputs
Upper(s) == [i \in 1..Len(s) |-> UpperChar(s[i])]

\* p in s
Contains(s, p) ==
    \E i \in 0..(Len(s) - Len(p)) : \A j \in 1..Len(p) : s[i + j] = p[j]

\* s.startswith(p)
StartsWith(s, p) == Len(p) <= Len(s) /\ \A j \in 1..Len(p) : s[j] = p[j]

\* s.endswith(p)
EndsWith(s, p) ==
    Len(p) <= Len(s) /\ SubSeq(s, Len(s) - Len(p) + 1, Len(s)) = p

IsSpace(c) == c \in {" ", "\t", "\n"}

\* str.strip()
Strip(s) ==
    IF \A i \in 1..Len(s) : IsSpace(s[i]) THEN <<>>
    ELSE LET first == CHOOSE i \in 1..Len(s) :
                          ~IsSpace(s[i]) /\ \A j \in 1..(i - 1) : IsSpace(s[j])
             last  == CHOOSE i \in 1..Len(s) :
                          ~IsSpace(s[i]) /\ \A j \in (i + 1)..Len(s) : IsSpace(s[j])
         IN  SubSeq(s, first, last)

\* str.rstrip('.')
RStripDot(s) ==
    IF \A i \in 1..Len(s) : s[i] = "." THEN <<>>
    ELSE LET last == CHOOSE i \in 1..Len(s) :
                          s[i] # "." /\ \A j \in (i + 1)..Len(s) : s[j] = "."
         IN  SubSeq(s, 1, last)

RECURSIVE Concat(_)
\* ''.join(parts)
Concat(parts) ==
    IF parts = <<>> THEN <<>> ELSE Head(parts) \o Concat(Tail(parts))

\* all sequences over S of length at most n
BoundedSeq(S, n) == UNION {[1..k -> S] : k \in 0..n}

Range(f) == {f[i] : i \in DOMAIN f}

\* the element of a one-element set; { e(x) : x \in {v} } computes v once
\* and e on its value
TheOnly(S) == CHOOSE x \in S : TRUE

(***************************************************************************)
(* Link Classifier: DBLPScraper.is_valid_content_link                      *)
(***************************************************************************)
DblpDomain == <<"d","b","l","p",".","o","r","g">>

skip_patterns ==
    << <<"b","i","b","t","e","x">>,
       <<"r","i","s">>,
       <<"r","d","f">>,
       <<"x","m","l">>,
       <<"e","n","d","n","o","t","e">>,
       <<".","n","t">>,
       <<".","t","t","l">>,
       <<"g","o","o","g","l","e",".","c","o","m">>,
       <<"s","c","h","o","l","a","r",".","g","o","o","g","l","e">>,
       <<"s","e","m","a","n","t","i","c","s","c","h","o","l","a","r">>,
       <<"c","i","t","e","s","e","e","r">>,
       <<"p","u","b","p","e","e","r">>,
       <<"r","e","d","d","i","t",".","c","o","m">>,
       <<"l","i","n","k","e","d","i","n",".","c","o","m">>,
       <<"b","i","b","s","o","n","o","m","y">>,
       <<"b","l","u","e","s","k","y">>,
       <<"t","w","i","t","t","e","r",".","c","o","m">>,
       <<"d","o","i",".","o","r","g">>,
       <<"u","s","e","n","i","x",".","o","r","g">>,
       <<"a","c","m",".","o","r","g">>,
       <<"i","e","e","e",".","o","r","g">> >>

valid_patterns ==
    << <<"/","d","b","/","c","o","n","f","/">>,
       <<"/","d","b","/","j","o","u","r","n","a","l","s","/">>,
       <<"c","o","n","t","e","n","t","s">>,
       <<"p","r","o","c","e","e","d","i","n","g","s">> >>

\* not url  (None or the empty string)
Falsy(s) == s = NoneVal \/ s = <<>>

is_valid_content_link_NoLower(u) ==
    IF Falsy(u) THEN FALSE
    ELSE IF ~Contains(u, DblpDomain) THEN FALSE
    ELSE IF \E i \in 1..Len(skip_patterns) : Contains(u, skip_patterns[i])
         THEN FALSE
    ELSE \E i \in 1..Len(valid_patterns) : Contains(u, valid_patterns[i])

is_valid_content_link_AnyCaseDomain(u) ==
    IF Falsy(u) THEN FALSE
    ELSE IF ~Contains(Lower(u), DblpDomain) THEN FALSE
    ELSE IF \E i \in 1..Len(skip_patterns) : Contains(Lower(u), skip_patterns[i])
         THEN FALSE
    ELSE \E i \in 1..Len(valid_patterns) : Contains(u, valid_patterns[i])

is_valid_content_link(u) ==
    IF Falsy(u) THEN FALSE
    ELSE IF ~Contains(u, DblpDomain) THEN FALSE
    ELSE LET lowered == Lower(u)
         IN  IF \E i \in 1..Len(skip_patterns) : Contains(lowered, skip_patterns[i])
             THEN FALSE
             ELSE \E i \in 1..Len(valid_patterns) : Contains(u, valid_patterns[i])

(***************************************************************************)
(* Inputs of the link classifier: every concatenation of at most MaxFrags  *)
(* fragments, every denylist entry (as written and upper-cased) after an   *)
(* accepted prefix, None and the empty string.                             *)
(***************************************************************************)
UrlFragments ==
    { <<"d","b","l","p",".","o","r","g">>,
      <<"D","B","L","P",".","O","R","G">>,
      <<"/","d","b","/","c","o","n","f","/">>,
      <<"/","D","B","/","C","o","n","f","/">>,
      <<"c","o","n","t","e","n","t","s">>,
      <<"/","p","i","d","/">>,
      <<"b","i","b","t","e","x">>,
      <<"B","i","b","T","e","X">>,
      <<".","X","M","L">>,
      <<"r","i">>,
      <<"s",".","h","t","m","l">>,
      <<"h","t","t","p","s",":","/","/">> }

AcceptedPrefix == DblpDomain \o valid_patterns[1]

FragUrls == {Concat(fs) : fs \in BoundedSeq(UrlFragments, MaxFrags)}

DenyUrls ==
    {AcceptedPrefix \o skip_patterns[i] : i \in 1..Len(skip_patterns)}
    \cup {AcceptedPrefix \o Upper(skip_patterns[i]) : i \in 1..Len(skip_patterns)}

LinkInputs == FragUrls \cup DenyUrls \cup {NoneVal}

(***************************************************************************)
(* Record Extractor: DBLPScraper.is_paper_entry and extract_paper_data.    *)
(* A DOM node is a record of what the selectors of the code find in it:    *)
(*   classes     the class attribute (NoneVal when absent)                 *)
(*   authorElems the span[itemprop='author'] sub-elements, in order        *)
(*   spanTitle   the text of the first span.title (NoneVal when none)      *)
(*   headline    whether that span.title lies under [itemprop='headline']  *)
(*   cite        the text of the first cite element (NoneVal when none)    *)
(*   recHref     the href of the first a[href*='/rec/'] (NoneVal if none)  *)
(*   stale       the node left the DOM after it was selected: every access *)
(*               raises StaleElementReferenceException                     *)
(***************************************************************************)
ClassValues ==
    { NoneVal,
      <<"e","n","t","r","y">>,
      <<"e","n","t","r","y"," ","i","n","p","r","o","c","e","e","d","i","n","g","s">>,
      <<"e","n","t","r","y"," ","a","r","t","i","c","l","e">>,
      <<"e","n","t","r","y"," ","i","n","c","o","l","l","e","c","t","i","o","n">>,
      <<"e","n","t","r","y"," ","e","d","i","t","o","r">>,
      <<"e","n","t","r","y"," ","a","r","t","i","c","l","e"," ","t","o","c">>,
      <<"e","n","t","r","y"," ","i","n","p","r","o","c","e","e","d","i","n","g","s"," ","e","d","i","t","o","r">>,
      <<"e","n","t","r","y"," ","i","n","f","o","r","m","a","l"," ","s","t","o","c","h","a","s","t","i","c">> }

TitleTexts ==
    { <<>>,
      <<"S","h","o","r","t">>,
      <<"T","e","n"," ","c","h","a","r","s","!">>,
      <<" "," ","T","e","n"," ","c","h","a","r","s","!"," ">>,
      <<"E","l","e","v","e","n"," ","c","h","a","r">>,
      <<" ","A"," ","S","t","u","d","y"," ","o","f"," ","X"," ">> }

CiteTexts ==
    { <<"h","t","t","p",":","/","/","d","b","l","p",".","o","r","g","/","r","e","c","/","c","o","n","f","/","x","/","1","\n","A"," ","s","u","f","f","i","c","i","e","n","t","l","y"," ","l","o","n","g"," ","t","i","t","l","e"," ","l","i","n","e",".">>,
      <<"s","h","o","r","t"," ","l","i","n","e","\n","a","n","o","t","h","e","r">>,
      <<"E","x","a","c","t","l","y"," ","t","w","e","n","t","y"," ","c","h","a","r","s","\n","T","w","e","n","t","y","-","o","n","e"," ","c","h","a","r","a","c","t","e","r","s","\n","A"," ","l","a","t","e","r"," ","l","i","n","e"," ","t","h","a","t"," ","i","s"," ","l","o","n","g">>,
      <<" ",".",".",".",".",".",".",".",".",".",".",".",".",".",".",".",".",".",".",".",".",".">> }

EditorTag == <<"e","d","i","t","o","r">>

TocTag == <<"t","o","c">>

HttpPrefix == <<"h","t","t","p">>

CommaSpace == <<","," ">>

JaneDoe == <<"J","a","n","e"," ","D","o","e">>

JDoe == <<"J","."," ","D","o","e">>

BobPadded == <<" ","B","o","b"," ">>

EvePadded == <<" ","E","v","e"," ">>

Blank == <<" "," ">>

ConfName == <<"I","C","S","E">>

PageUrl == <<"d","b","l","p",".","o","r","g","/","d","b","/","c","o","n","f","/","i","c","s","e","/","i","c","s","e","2","0","2","0",".","h","t","m","l">>

paper_indicators ==
    << <<"i","n","p","r","o","c","e","e","d","i","n","g","s">>,
       <<"a","r","t","i","c","l","e">>,
       <<"i","n","c","o","l","l","e","c","t","i","o","n">> >>

RecHref == PageUrl \o <<"/","r","e","c","/","1">>

\* an author element: its nested span[itemprop='name'] (hasName), that
\* element's title attribute and text, and the author element's own text
AuthorElems ==
    { [hasName |-> TRUE,  nameTitle |-> JaneDoe, nameText |-> JDoe,      text |-> JDoe],
      [hasName |-> TRUE,  nameTitle |-> NoneVal, nameText |-> BobPadded, text |-> BobPadded],
      [hasName |-> FALSE, nameTitle |-> NoneVal, nameText |-> <<>>,      text |-> EvePadded],
      [hasName |-> TRUE,  nameTitle |-> NoneVal, nameText |-> Blank,     text |-> Blank] }

Elements ==
    [ classes     : ClassValues,
      authorElems : BoundedSeq(AuthorElems, MaxAuthors),
      spanTitle   : TitleTexts \cup {NoneVal},
      headline    : {FALSE},
      cite        : CiteTexts \cup {NoneVal},
      recHref     : {RecHref},
      stale       : {FALSE} ]

\* len(s) of a text that may be absent
TrimmedLen(t) == Len(Strip(t))

is_paper_entry_AuthorsFirst(el) ==
    IF el.stale THEN FALSE
    ELSE
    LET classes == IF el.classes = NoneVal THEN <<>> ELSE el.classes
    IN  IF Len(el.authorElems) > 0 THEN TRUE
        ELSE IF Contains(classes, EditorTag) \/ Contains(classes, TocTag) THEN FALSE
        ELSE IF \E i \in 1..Len(paper_indicators) : Contains(classes, paper_indicators[i])
             THEN TRUE
        ELSE IF el.spanTitle # NoneVal /\ TrimmedLen(el.spanTitle) > 10 THEN TRUE
        ELSE FALSE

is_paper_entry_TitleAtLeast10(el) ==
    IF el.stale THEN FALSE
    ELSE
    LET classes == IF el.classes = NoneVal THEN <<>> ELSE el.classes
    IN  IF Contains(classes, EditorTag) \/ Contains(classes, TocTag) THEN FALSE
        ELSE IF \E i \in 1..Len(paper_indicators) : Contains(classes, paper_indicators[i])
             THEN TRUE
        ELSE IF Len(el.authorElems) > 0 THEN TRUE
        ELSE IF el.spanTitle # NoneVal /\ TrimmedLen(el.spanTitle) >= 10 THEN TRUE
        ELSE FALSE

is_paper_entry(el) ==
    IF el.stale THEN FALSE   \* lines 422-424: the access raises
    ELSE
    LET classes == IF el.classes = NoneVal THEN <<>> ELSE el.classes
    IN  IF Contains(classes, EditorTag) \/ Contains(classes, TocTag) THEN FALSE
        ELSE IF \E i \in 1..Len(paper_indicators) : Contains(classes, paper_indicators[i])
             THEN TRUE
        ELSE IF Len(el.authorElems) > 0 THEN TRUE
        ELSE IF el.spanTitle # NoneVal /\ TrimmedLen(el.spanTitle) > 10 THEN TRUE
        ELSE FALSE

RECURSIVE SplitLines(_)
\* text.split('\n')
SplitLines(t) ==
    IF \A i \in 1..Len(t) : t[i] # "\n" THEN <<t>>
    ELSE LET k == CHOOSE i \in 1..Len(t) :
                      t[i] = "\n" /\ \A j \in 1..(i - 1) : t[j] # "\n"
         IN  <<SubSeq(t, 1, k - 1)>> \o SplitLines(SubSeq(t, k + 1, Len(t)))

\* the first line longer than 20 characters that does not start with 'http',
\* stripped and without trailing dots; '' when there is none
TitleFromCite(t) ==
    LET lines == SplitLines(Strip(t))
        ok(i) == Len(lines[i]) > 20 /\ ~StartsWith(lines[i], HttpPrefix)
    IN  IF \E i \in 1..Len(lines) : ok(i)
        THEN LET k == CHOOSE i \in 1..Len(lines) :
                          ok(i) /\ \A j \in 1..(i - 1) : ~ok(j)
             IN  RStripDot(Strip(lines[k]))
        ELSE <<>>

\* find_element("[itemprop='headline'] span.title"): a match is a span.title
\* of the node, so there is none when the node has no span.title
FindHeadlineTitle(el) ==
    IF el.spanTitle # NoneVal /\ el.headline THEN el.spanTitle ELSE NoneVal

ExtractTitle_CiteFirst(el) ==
    IF el.cite # NoneVal
    THEN [name |-> TitleFromCite(el.cite), queried |-> {"cite"}]
    ELSE IF el.spanTitle # NoneVal
    THEN [name |-> Strip(el.spanTitle), queried |-> {"cite", "span.title"}]
    ELSE [name |-> <<>>, queried |-> {"cite", "span.title"}]

\* the title chain of extract_paper_data: the name and the selectors queried
ExtractTitle(el) ==
    IF el.spanTitle # NoneVal
    THEN [name |-> Strip(el.spanTitle), queried |-> {"span.title"}]
    ELSE IF FindHeadlineTitle(el) # NoneVal
    THEN [name |-> Strip(FindHeadlineTitle(el)),
          queried |-> {"span.title", "headline span.title"}]
    ELSE IF el.cite # NoneVal
    THEN [name |-> TitleFromCite(el.cite),
          queried |-> {"span.title", "headline span.title", "cite"}]
    ELSE [name |-> <<>>,
          queried |-> {"span.title", "headline span.title", "cite"}]

\* the names appended for one author element
AuthorNames(a) ==
    IF a.hasName
    THEN LET author_name == IF Falsy(a.nameTitle) THEN a.nameText ELSE a.nameTitle
         IN  IF ~Falsy(author_name) /\ Strip(author_name) # <<>>
             THEN <<Strip(author_name)>> ELSE <<>>
    ELSE IF Strip(a.text) # <<>> THEN <<Strip(a.text)>> ELSE <<>>

RECURSIVE ExtractAuthors(_)
ExtractAuthors(elems) ==
    IF elems = <<>> THEN <<>>
    ELSE AuthorNames(Head(elems)) \o ExtractAuthors(Tail(elems))

RECURSIVE Join(_, _)
\* sep.join(parts)
Join(sep, parts) ==
    IF parts = <<>> THEN <<>>
    ELSE IF Len(parts) = 1 THEN parts[1]
    ELSE parts[1] \o sep \o Join(sep, Tail(parts))

\* the record extract_paper_data returns (year, pages and location, which
\* no operation below reads, are left out)
extract_paper_data(el, conference_name, page_url) ==
    [ name                 |-> ExtractTitle(el).name,
      authors              |-> Join(CommaSpace, ExtractAuthors(el.authorElems)),
      conference_href      |-> page_url,
      paper_href           |-> IF el.recHref = NoneVal THEN <<>> ELSE el.recHref,
      created_at           |-> <<>>,
      conference_processed |-> conference_name ]

InitEntry ==
    /\ elem \in Elements
    /\ isPaper = FALSE
    /\ paperData = NoPaper
    /\ queried = {}
    /\ entryPc = "input"
    /\ IdleLink /\ IdleDedup /\ IdleDiscovery /\ IdleRun /\ IdleResolver
    /\ IdleBatch /\ IdleJournal

\* one call of is_paper_entry(element)
IsPaperEntry ==
    /\ entryPc = "input"
    /\ isPaper' = is_paper_entry(elem)
    /\ entryPc' = "classified"
    /\ UNCHANGED <<elem, paperData, queried, nonEntryVars>>

\* one call of extract_paper_data(element, conference_name, content_url)
\* (called only for a node is_paper_entry accepted: the loop of
\* scrape_papers_from_content_page)
ExtractPaperData ==
    /\ entryPc = "classified"
    /\ isPaper
    /\ paperData' = extract_paper_data(elem, ConfName, PageUrl)
    /\ queried' = ExtractTitle(elem).queried
    /\ entryPc' = "extracted"
    /\ UNCHANGED <<elem, isPaper, nonEntryVars>>

(***************************************************************************)
(* Record-level deduplicator: the closing loop of                          *)
(* DBLPScraper.scrape_papers_from_content_page.                            *)
(***************************************************************************)
\* (paper['name'].lower().strip(), paper['authors'].lower().strip())
paper_key(paper) == <<Strip(Lower(paper.name)), Strip(Lower(paper.authors))>>

paper_key_Raw(paper) == <<paper.name, paper.authors>>

RECURSIVE DedupLoop(_, _, _)
\* the loop over papers: unique_papers and seen_papers after the rest
DedupLoop(papers, unique_papers, seen_papers) ==
    IF papers = <<>> THEN unique_papers
    ELSE LET paper == Head(papers)
         IN  IF paper_key(paper) \notin seen_papers /\ Strip(paper.name) # <<>>
             THEN DedupLoop(Tail(papers), Append(unique_papers, paper),
                            seen_papers \cup {paper_key(paper)})
             ELSE DedupLoop(Tail(papers), unique_papers, seen_papers)

RECURSIVE DedupLoop_RawKey(_, _, _)
DedupLoop_RawKey(papers, unique_papers, seen_papers) ==
    IF papers = <<>> THEN unique_papers
    ELSE LET paper == Head(papers)
         IN  IF paper_key_Raw(paper) \notin seen_papers /\ Strip(paper.name) # <<>>
             THEN DedupLoop_RawKey(Tail(papers), Append(unique_papers, paper),
                                   seen_papers \cup {paper_key_Raw(paper)})
             ELSE DedupLoop_RawKey(Tail(papers), unique_papers, seen_papers)

DedupPapers_RawKey(papers) == DedupLoop_RawKey(papers, <<>>, {})

\* the loop stops one record early
DedupPapers_SkipLast(papers) ==
    IF papers = <<>> THEN <<>>
    ELSE DedupLoop(SubSeq(papers, 1, Len(papers) - 1), <<>>, {})

\* unique_papers of lines 372-378
DedupPapers(papers) == DedupLoop(papers, <<>>, {})

TitleAb == <<"A","b">>
TitleABdot == <<"A","B"," ">>
TitleC == <<"c">>
AuthorsXY == <<"X",","," ","Y">>
AuthorsXYlower == <<"x",","," ","y">>
AuthorsZ == <<"Z">>
PageUrl2 == <<"d","b","l","p",".","o","r","g","/","d","b","/","c","o","n","f","/","i","c","s","e","/","i","c","s","e","2","0","2","1",".","h","t","m","l">>

ExtractedRecord(name, authors, page_url, n) ==
    [ name |-> name, authors |-> authors, conference_href |-> page_url,
      paper_href |-> RecHref \o n, created_at |-> <<>>,
      conference_processed |-> ConfName ]

\* records as extract_paper_data returns them: a non-empty trimmed name (line
\* 359), which rstrip('.') may leave with a trailing blank
ExtractedRecords ==
    { ExtractedRecord(TitleAb,    AuthorsXY,      PageUrl,  <<"1">>),
      ExtractedRecord(TitleABdot, AuthorsXYlower, PageUrl2, <<"2">>),
      ExtractedRecord(TitleAb,    AuthorsZ,       PageUrl,  <<"3">>),
      ExtractedRecord(TitleAb,    <<>>,           PageUrl,  <<"4">>),
      ExtractedRecord(TitleC,     AuthorsXY,      PageUrl,  <<"5">>),
      ExtractedRecord(TitleC,     AuthorsXY,      PageUrl2, <<"5">>) }

InitDedup ==
    /\ dedupIn \in BoundedSeq(ExtractedRecords, MaxPapers)
    /\ dedupOut = <<>>
    /\ dedupOut2 = <<>>
    /\ dedupPc = "input"
    /\ IdleLink /\ IdleEntry /\ IdleDiscovery /\ IdleRun /\ IdleResolver
    /\ IdleBatch /\ IdleJournal

\* the dedup step on the records of one page
DedupOnce ==
    /\ dedupPc = "input"
    /\ dedupOut' = DedupPapers(dedupIn)
    /\ dedupPc' = "once"
    /\ UNCHANGED <<dedupIn, dedupOut2, nonDedupVars>>

\* the dedup step on its own output
DedupAgain ==
    /\ dedupPc = "once"
    /\ dedupOut2' = DedupPapers(dedupOut)
    /\ dedupPc' = "twice"
    /\ UNCHANGED <<dedupIn, dedupOut, nonDedupVars>>

(***************************************************************************)
(* Link discovery: DBLPScraper.scrape_conference_content_links.            *)
(* A seed page is its li.entry nodes (in the ul.publ-list containers, in   *)
(* document order), the anchors outside them, and the failure the browser  *)
(* raises for it: "load" (driver.get or the wait), "lists" (locating the   *)
(* publication lists) or "none".  An entry is                              *)
(*   tocHref, tocText  the first a.toc-link (tocHref NoneVal: no such      *)
(*                     element, or one without href)                       *)
(*   spanTitle, cite   the texts of span.title and cite.data (or NoneVal)  *)
(*   nav               the anchors of nav.publ, in order (<<>> if none)    *)
(*   raises            the node raises a WebDriverException when queried   *)
(* and an anchor is its href, visible text and title attribute.            *)
(***************************************************************************)
DbMarker == <<"/","d","b","/">>
HtmlSuffix == <<".","h","t","m","l">>
UnknownTitle == <<"U","n","k","n","o","w","n">>
link_keywords ==
    << <<"c","o","n","t","e","n","t","s">>,
       <<"p","r","o","c","e","e","d","i","n","g","s">>,
       <<"p","a","p","e","r","s">>,
       <<"t","a","b","l","e"," ","o","f"," ","c","o","n","t","e","n","t","s">> >>

UrlA == <<"d","b","l","p",".","o","r","g","/","d","b","/","c","o","n","f","/","a","/","a","1",".","h","t","m","l">>
UrlB == <<"d","b","l","p",".","o","r","g","/","d","b","/","c","o","n","f","/","b","/","b","1">>
UrlC == <<"d","b","l","p",".","o","r","g","/","p","i","d","/","c","o","n","t","e","n","t","s",".","h","t","m","l">>
UrlBib == <<"d","b","l","p",".","o","r","g","/","d","b","/","c","o","n","f","/","a","/","a","1",".","b","i","b","t","e","x">>

Anchor(href, text, title) == [href |-> href, text |-> text, title |-> title]

Link(u, title, section, type) ==
    [url |-> u, title |-> title, section |-> section, type |-> type]

\* extract_toc_links_from_entry(entry)
extract_toc_links_from_entry(entry) ==
    IF entry.raises THEN <<>>
    ELSE IF ~Falsy(entry.tocHref) /\ is_valid_content_link(entry.tocHref)
    THEN LET title ==
                 IF entry.spanTitle # NoneVal THEN Strip(entry.spanTitle)
                 ELSE IF entry.cite # NoneVal
                      THEN SplitLines(Strip(entry.cite))[1]
                 ELSE UnknownTitle
         IN  <<Link(entry.tocHref, title, "toc-link", "table_of_contents")>>
    ELSE <<>>

RECURSIVE DirectLinks(_)
DirectLinks(nav_links) ==
    IF nav_links = <<>> THEN <<>>
    ELSE LET link == Head(nav_links)
             href == link.href
             title == IF Falsy(link.title) THEN Strip(link.text) ELSE link.title
         IN  (IF /\ ~Falsy(href) /\ is_valid_content_link(href)
                 /\ Contains(href, DbMarker) /\ EndsWith(href, HtmlSuffix)
              THEN <<Link(href, title, "nav-link", "database_page")>>
              ELSE <<>>)
             \o DirectLinks(Tail(nav_links))

\* extract_direct_links_from_entry(entry)
extract_direct_links_from_entry(entry) ==
    IF entry.raises THEN <<>> ELSE DirectLinks(entry.nav)

RECURSIVE StructuredLinks(_)
\* the loop over the entries of the publication lists
StructuredLinks(entries) ==
    IF entries = <<>> THEN <<>>
    ELSE extract_toc_links_from_entry(Head(entries))
         \o extract_direct_links_from_entry(Head(entries))
         \o StructuredLinks(Tail(entries))

RECURSIVE EntryAnchors(_)
\* the anchors of the entries, in document order
EntryAnchors(entries) ==
    IF entries = <<>> THEN <<>>
    ELSE LET e == Head(entries)
         IN  e.nav
             \o (IF e.hasToc THEN <<Anchor(e.tocHref, e.tocText, NoneVal)>> ELSE <<>>)
             \o EntryAnchors(Tail(entries))

\* driver.find_elements(By.TAG_NAME, "a")
AllAnchors(page) == EntryAnchors(page.entries) \o page.others

RECURSIVE AdditionalLinks(_)
AdditionalLinks(all_links) ==
    IF all_links = <<>> THEN <<>>
    ELSE LET link == Head(all_links)
             href == link.href
             text == Lower(Strip(link.text))
         IN  (IF /\ ~Falsy(href) /\ is_valid_content_link(href)
                 /\ \E k \in 1..Len(link_keywords) : Contains(text, link_keywords[k])
              THEN <<Link(href, Strip(link.text), "additional", "content_page")>>
              ELSE <<>>)
             \o AdditionalLinks(Tail(all_links))

\* as find_additional_content_links, called inside the try block of the
\* structured pass
find_additional_content_links_InsideTry(page) ==
    IF page.fault = "lists" THEN <<>> ELSE AdditionalLinks(AllAnchors(page))

\* find_additional_content_links()
find_additional_content_links(page) == AdditionalLinks(AllAnchors(page))

RECURSIVE UniqueLinks(_, _, _)
\* the loop that removes duplicates: unique_links and seen_urls
UniqueLinks(collected, unique_links, seen_urls) ==
    IF collected = <<>> THEN unique_links
    ELSE LET link == Head(collected)
         IN  IF link.url \notin seen_urls
             THEN UniqueLinks(Tail(collected), Append(unique_links, link),
                              seen_urls \cup {link.url})
             ELSE UniqueLinks(Tail(collected), unique_links, seen_urls)

RECURSIVE UniqueLinks_LastWins(_, _, _)
\* a later descriptor replaces the one kept for its URL
UniqueLinks_LastWins(collected, unique_links, seen_urls) ==
    IF collected = <<>> THEN unique_links
    ELSE LET link == Head(collected)
         IN  IF link.url \notin seen_urls
             THEN UniqueLinks_LastWins(Tail(collected), Append(unique_links, link),
                                       seen_urls \cup {link.url})
             ELSE UniqueLinks_LastWins(Tail(collected),
                      [i \in 1..Len(unique_links) |->
                          IF unique_links[i].url = link.url THEN link
                          ELSE unique_links[i]],
                      seen_urls)

RemoveDuplicateLinks_LastWins(collected) ==
    UniqueLinks_LastWins(collected, <<>>, {})

\* unique_links of lines 179-185, for the list collected in content_links
RemoveDuplicateLinks(collected) == UniqueLinks(collected, <<>>, {})

\* content_links before the duplicates are removed
CollectedLinks(page) ==
    (IF page.fault = "lists" THEN <<>> ELSE StructuredLinks(page.entries))
    \o find_additional_content_links(page)

\* scrape_conference_content_links(conference_url), for the page the URL loads
scrape_conference_content_links(page) ==
    IF page.fault = "load" THEN <<>>
    ELSE RemoveDuplicateLinks(CollectedLinks(page))

TextContents == <<" ","[","C","o","n","t","e","n","t","s","]"," ">>
TextProceedings == <<"P","r","o","c","e","e","d","i","n","g","s"," ","2","0","2","0">>
TextHome == <<"h","o","m","e">>
TextPapers == <<"p","a","p","e","r","s">>
ProcTitle == <<" ","P","r","o","c","."," ","A"," ">>
CiteData == <<"E","d","s",".",":"," ","P","r","o","c","."," ","C","\n","S","p","r","i","n","g","e","r">>
VenueTitle == <<"C","o","n","f"," ","B">>

Entry(tocHref, tocText, spanTitle, cite, nav) ==
    [ hasToc |-> tocText # NoneVal, tocHref |-> tocHref,
      tocText |-> IF tocText = NoneVal THEN <<>> ELSE tocText,
      spanTitle |-> spanTitle, cite |-> cite, nav |-> nav, raises |-> FALSE ]

\* the entry e when its node raises on every query of the structured pass
Raising(e) == [e EXCEPT !.raises = TRUE]

SeedEntries ==
    { Entry(UrlA, TextContents, ProcTitle, NoneVal,
            <<Anchor(UrlB, TextHome, VenueTitle), Anchor(UrlA, TextHome, NoneVal)>>),
      Entry(NoneVal, NoneVal, ProcTitle, NoneVal,
            <<Anchor(UrlA, TextProceedings, NoneVal)>>),
      Entry(UrlC, TextHome, NoneVal, CiteData, <<>>),
      Raising(Entry(UrlA, TextContents, ProcTitle, NoneVal,
                    <<Anchor(UrlB, TextProceedings, VenueTitle)>>)) }

SeedAnchors ==
    { Anchor(UrlA, TextContents, NoneVal),
      Anchor(UrlB, TextProceedings, NoneVal),
      Anchor(UrlBib, TextContents, NoneVal),
      Anchor(NoneVal, TextPapers, NoneVal) }

SeedPages ==
    [ entries : BoundedSeq(SeedEntries, MaxEntries),
      others  : BoundedSeq(SeedAnchors, MaxAnchors),
      fault   : {"none", "load", "lists"} ]

InitDiscovery ==
    /\ seedPage \in SeedPages
    /\ contentLinks = <<>>
    /\ linksPc = "input"
    /\ IdleLink /\ IdleEntry /\ IdleDedup /\ IdleRun /\ IdleResolver
    /\ IdleBatch /\ IdleJournal

\* one call of scrape_conference_content_links
ScrapeContentLinks ==
    /\ linksPc = "input"
    /\ contentLinks' = scrape_conference_content_links(seedPage)
    /\ linksPc' = "done"
    /\ UNCHANGED <<seedPage, nonDiscoveryVars>>

(***************************************************************************)
(* The conference pipeline: insert_conf_paper,                             *)
(* DBLPScraper.scrape_papers_from_content_page, save_papers_to_db and      *)
(* run_scraper.  A content page is the li.entry nodes of its publication   *)
(* lists, in order, and the failure the browser raises for it ("load" or   *)
(* "none").  db lists the rows written to conf_papers, each with the       *)
(* function that wrote it.                                                 *)
(***************************************************************************)
\* datetime.now().isoformat()
Now == <<"n","o","w">>

\* the class attribute has the token tok (the CSS selector li.entry.tok)
HasClassToken(el, tok) ==
    el.classes # NoneVal
    /\ Contains(<<" ">> \o el.classes \o <<" ">>, <<" ">> \o tok \o <<" ">>)

\* node selection of lines 339-347: inproceedings entries, else article
\* entries, else all entries
PaperElements(page) ==
    LET inproceedings ==
            SelectSeq(page.elements, LAMBDA el : HasClassToken(el, paper_indicators[1]))
        articles ==
            SelectSeq(page.elements, LAMBDA el : HasClassToken(el, paper_indicators[2]))
    IN  IF inproceedings # <<>> THEN inproceedings
        ELSE IF articles # <<>> THEN articles
        ELSE page.elements

\* what a call returns: None or an integer
ReturnedNone == [kind |-> "none"]

ReturnedInt(n) == [kind |-> "int", value |-> n]

\* DBLP.db as a call finds it
Database(exists, fault) ==
    [exists |-> exists, opens |-> fault.opens, hasTable |-> fault.hasTable,
     rejects |-> fault.rejects]

\* the INSERT of this record raises sqlite3.Error
Rejects(dbase, rec) == ~dbase.hasTable \/ rec.paper_href \in dbase.rejects

\* one INSERT tried: the function, the record, whether a row was written,
\* the value returned and whether an exception left the function
Attempt(via, rec, wrote, result, raised) ==
    [via |-> via, rec |-> rec, wrote |-> wrote, result |-> result,
     raised |-> raised]

\* insert_conf_paper(paper_dict), for the rows conf_papers holds: the
\* dictionary as the call leaves it, the rows written, the value returned and
\* whether an exception left the call.  When sqlite3.connect raises, line 92
\* catches it and the finally block reads conn, which was never bound: the
\* UnboundLocalError of line 102 replaces the pending return.
insert_conf_paper(paper_dict, dbase, table) ==
    LET stamped == IF paper_dict.created_at = <<>>
                   THEN [paper_dict EXCEPT !.created_at = Now]
                   ELSE paper_dict
    IN  IF ~dbase.exists
        THEN [paper |-> paper_dict, rows |-> <<>>, result |-> ReturnedNone,
              raised |-> FALSE]
        ELSE IF ~dbase.opens
        THEN [paper |-> paper_dict, rows |-> <<>>, result |-> ReturnedNone,
              raised |-> TRUE]
        ELSE IF Rejects(dbase, stamped)
        THEN [paper |-> stamped, rows |-> <<>>, result |-> ReturnedNone,
              raised |-> FALSE]
        ELSE [paper |-> stamped,
              rows |-> <<[via |-> "insert_conf_paper", rec |-> stamped]>>,
              result |-> ReturnedInt(Len(table) + 1), raised |-> FALSE]

KeepsRecord_NoTitleCheck(paper_data) == TRUE

\* line 359: paper_data and paper_data['name'].strip()
KeepsRecord(paper_data) == Strip(paper_data.name) # <<>>

\* nothing appended, written or tried yet
NoneScraped == [papers |-> <<>>, rows |-> <<>>, attempts |-> <<>>]

RECURSIVE ScrapeLoop(_, _, _, _, _, _)
\* the loop over paper_elements, lines 352-367: the records appended, the
\* rows written and the INSERTs tried.  The record is appended before the
\* call of insert_conf_paper, whose exception line 365 catches.
ScrapeLoop(elements, conference_name, content_url, dbase, table, acc) ==
    IF elements = <<>> THEN acc
    ELSE \* the CHOOSE binds the value once
         LET element == Head(elements)
             step == CHOOSE st \in
                 { IF is_paper_entry(element) /\ KeepsRecord(paper_data)
                   THEN LET ins == CHOOSE i \in
                                {insert_conf_paper(paper_data, dbase,
                                                   table \o acc.rows)} : TRUE
                        IN  [papers |-> Append(acc.papers, ins.paper),
                             rows |-> acc.rows \o ins.rows,
                             attempts |->
                                 Append(acc.attempts,
                                        Attempt("insert_conf_paper", ins.paper,
                                                ins.rows # <<>>, ins.result,
                                                ins.raised))]
                   ELSE acc
                   : paper_data \in
                       {extract_paper_data(element, conference_name, content_url)} }
                 : TRUE
         IN  ScrapeLoop(Tail(elements), conference_name, content_url, dbase,
                        table, step)

\* the INSERTs tried up to the first one that raised, that one included
UpToFirstRaise(tried) ==
    IF \E i \in 1..Len(tried) : tried[i].raised
    THEN SubSeq(tried, 1,
                CHOOSE i \in 1..Len(tried) :
                    tried[i].raised /\ \A j \in 1..(i - 1) : ~tried[j].raised)
    ELSE tried

\* as scrape_papers_from_content_page, without the try block of lines
\* 353-367: an exception of insert_conf_paper reaches line 368
scrape_papers_from_content_page_NoInnerCatch(page, content_url, conference_name, dbase, table) ==
    IF page.fault = "load" THEN NoneScraped
    ELSE LET r == CHOOSE x \in
                 {ScrapeLoop(PaperElements(page), conference_name, content_url,
                             dbase, table, NoneScraped)} : TRUE
             tried == UpToFirstRaise(r.attempts)
         IN  IF tried = r.attempts
             THEN [papers |-> DedupPapers(r.papers), rows |-> r.rows,
                   attempts |-> r.attempts]
             ELSE [papers |-> <<>>,
                   rows |-> SubSeq(r.rows, 1,
                                   Cardinality({i \in 1..Len(tried) : tried[i].wrote})),
                   attempts |-> tried]

\* scrape_papers_from_content_page(content_url, conference_name), for the page
\* the URL loads and the rows conf_papers holds: the list returned, the rows
\* written and the INSERTs tried
scrape_papers_from_content_page(page, content_url, conference_name, dbase, table) ==
    IF page.fault = "load" THEN NoneScraped
    ELSE LET r == CHOOSE x \in
                 {ScrapeLoop(PaperElements(page), conference_name, content_url,
                             dbase, table, NoneScraped)} : TRUE
         IN  [papers |-> DedupPapers(r.papers), rows |-> r.rows,
              attempts |-> r.attempts]

\* the INSERT OR REPLACE of lines 580-602 for one record
SaveAttempt(paper, dbase) ==
    Attempt("save_papers_to_db", paper, ~Rejects(dbase, paper), ReturnedNone,
            FALSE)

\* save_papers_to_db(papers): the rows written, the INSERTs tried and whether
\* DBLP.db exists afterwards.  No INSERT is tried when the list is empty
\* (line 552), when the connection fails (line 610) or when the table is
\* missing (line 566); sqlite3.connect creates a file that did not exist.
save_papers_to_db(papers, dbase) ==
    IF papers = <<>> THEN [rows |-> <<>>, attempts |-> <<>>, exists |-> dbase.exists]
    ELSE IF ~dbase.exists \/ ~dbase.opens \/ ~dbase.hasTable
    THEN [rows |-> <<>>, attempts |-> <<>>, exists |-> TRUE]
    ELSE LET tried == [i \in 1..Len(papers) |-> SaveAttempt(papers[i], dbase)]
             written == SelectSeq(tried, LAMBDA a : a.wrote)
         IN  [rows |-> [i \in 1..Len(written) |->
                           [via |-> "save_papers_to_db", rec |-> written[i].rec]],
              attempts |-> tried, exists |-> TRUE]

TitleStudy == <<" ","A"," ","S","t","u","d","y"," ","o","f"," ","X"," ">>
CiteWithTitle == <<"h","t","t","p",":","/","/","d","b","l","p",".","o","r","g","/","r","e","c","/","c","o","n","f","/","x","/","1","\n","A"," ","s","u","f","f","i","c","i","e","n","t","l","y"," ","l","o","n","g"," ","t","i","t","l","e"," ","l","i","n","e",".">>
CiteDots == <<" ",".",".",".",".",".",".",".",".",".",".",".",".",".",".",".",".",".",".",".",".",".">>
ClassInproceedings == <<"e","n","t","r","y"," ","i","n","p","r","o","c","e","e","d","i","n","g","s">>
ClassArticle == <<"e","n","t","r","y"," ","a","r","t","i","c","l","e">>
ClassInprocEditor == <<"e","n","t","r","y"," ","i","n","p","r","o","c","e","e","d","i","n","g","s"," ","e","d","i","t","o","r">>

Node(classes, authorElems, spanTitle, cite, n) ==
    [ classes |-> classes, authorElems |-> authorElems, spanTitle |-> spanTitle,
      headline |-> FALSE, cite |-> cite, recHref |-> RecHref \o n,
      stale |-> FALSE ]

JaneElem ==
    [hasName |-> TRUE, nameTitle |-> JaneDoe, nameText |-> JDoe, text |-> JDoe]

\* a page of inproceedings entries: a paper, an entry whose span.title is
\* empty, the same paper in upper case, an editorship entry
PageA ==
    [ elements |->
          << Node(ClassInproceedings, <<JaneElem>>, TitleStudy, NoneVal, <<"1">>),
             Node(ClassInproceedings, <<JaneElem>>, <<>>, CiteWithTitle, <<"2">>),
             Node(ClassInproceedings, <<JaneElem>>, Upper(TitleStudy), NoneVal, <<"3">>),
             Node(ClassInprocEditor, <<JaneElem>>, TitleStudy, NoneVal, <<"4">>) >>,
      fault |-> "none" ]

\* a page of article entries without span.title: one with a title line in its
\* cite block, one whose cite block is a line of dots
PageB ==
    [ elements |->
          << Node(ClassArticle, <<>>, NoneVal, CiteWithTitle, <<"5">>),
             Node(ClassArticle, <<>>, NoneVal, CiteDots, <<"6">>) >>,
      fault |-> "none" ]

\* a page whose first node has left the DOM when the loop reaches it,
\* followed by two papers
PageC ==
    [ elements |->
          << [Node(ClassInproceedings, <<JaneElem>>, TitleStudy, NoneVal, <<"7">>)
                 EXCEPT !.stale = TRUE],
             Node(ClassInproceedings, <<JaneElem>>, NoneVal, CiteWithTitle, <<"8">>),
             Node(ClassInproceedings, <<JaneElem>>, TitleStudy, NoneVal, <<"9">>) >>,
      fault |-> "none" ]

PageFail == [elements |-> <<>>, fault |-> "load"]

ContentPages == {PageA, PageB, PageC, PageFail}

EntryA ==
    Entry(UrlA, TextContents, ProcTitle, NoneVal,
          <<Anchor(UrlB, TextHome, VenueTitle), Anchor(UrlA, TextHome, NoneVal)>>)

\* seed pages with no, one and two content links
Seed0 == [entries |-> <<>>, others |-> <<>>, fault |-> "none"]

Seed1 == [entries |-> <<EntryA>>, others |-> <<>>, fault |-> "none"]

Seed2 ==
    [ entries |-> <<EntryA>>,
      others |-> <<Anchor(UrlB, TextProceedings, NoneVal)>>,
      fault |-> "none" ]

\* a seed page that fails to load
SeedFail == [entries |-> <<EntryA>>, others |-> <<>>, fault |-> "load"]

Seeds == {Seed0, Seed1, Seed2, SeedFail}

\* sqlite3.connect raises
CannotOpen == [opens |-> FALSE, hasTable |-> TRUE, rejects |-> {}]

\* the file has no conf_papers table (so has the file connect creates)
NoTable == [opens |-> TRUE, hasTable |-> FALSE, rejects |-> {}]

\* the table rejects the record of the first node of PageA and that of the
\* first paper of PageC
RejectsOne ==
    [ opens |-> TRUE, hasTable |-> TRUE,
      rejects |-> {RecHref \o <<"1">>, RecHref \o <<"8">>} ]

DbFaults == {NoFault, CannotOpen, NoTable, RejectsOne}

Visit(kind, fault) == [kind |-> kind, fault |-> fault]

InitRun ==
    /\ conferences \in BoundedSeq(Seeds, MaxConfs)
    /\ content_links = <<>>
    /\ linkIdx = 0
    /\ lastPapers = <<>>
    /\ all_papers = <<>>
    /\ \E exists \in BOOLEAN, fault \in DbFaults :
           /\ exists \/ fault = NoTable
           /\ dbExists = exists
           /\ dbFault = fault
    /\ db = <<>>
    /\ runPc = "next"
    /\ attempts = <<>>
    /\ visits = <<>>
    /\ lastPage = NoPage
    /\ pageTimeline = <<>>
    /\ IdleLink /\ IdleEntry /\ IdleDedup /\ IdleDiscovery /\ IdleResolver
    /\ IdleBatch /\ IdleJournal

\* run_scraper, lines 621-632: the next seed and its content links
StartConference ==
    /\ runPc = "next"
    /\ conferences # <<>>
    /\ \E found \in {scrape_conference_content_links(Head(conferences))} :
           IF found = <<>>
           THEN /\ conferences' = Tail(conferences)
                /\ UNCHANGED <<content_links, linkIdx, all_papers, runPc>>
           ELSE /\ content_links' = found
                /\ linkIdx' = 1
                /\ all_papers' = <<>>
                /\ runPc' = "links"
                /\ UNCHANGED conferences
    /\ visits' = Append(visits, Visit("seed", Head(conferences).fault))
    \* driver.get of line 139; the continue of line 629 passes no sleep
    /\ pageTimeline' = Append(pageTimeline, "load")
    /\ UNCHANGED <<lastPapers, dbExists, db, dbFault, attempts, lastPage,
                   nonRunVars>>

\* run_scraper, lines 635-655: one content link
ProcessLink ==
    /\ runPc = "links"
    /\ linkIdx <= Len(content_links)
    /\ \E page \in ContentPages :
         \E r \in {scrape_papers_from_content_page(
                       page, content_links[linkIdx].url, ConfName,
                       Database(dbExists, dbFault), db)} :
           \E saved \in {save_papers_to_db(
                             IF r.papers # <<>> THEN all_papers \o r.papers
                             ELSE <<>>,
                             Database(dbExists, dbFault))} :
               /\ lastPage' = page
               /\ lastPapers' = r.papers
               /\ all_papers' = all_papers \o r.papers
               /\ db' = db \o r.rows \o saved.rows
               /\ attempts' = attempts \o r.attempts \o saved.attempts
               /\ dbExists' = saved.exists
               /\ visits' = Append(visits, Visit("link", page.fault))
               /\ linkIdx' = linkIdx + 1
    \* driver.get of line 326, then time.sleep(2) of line 651
    /\ pageTimeline' = pageTimeline \o <<"load", "sleep">>
    /\ UNCHANGED <<conferences, content_links, dbFault, runPc, nonRunVars>>

\* run_scraper, lines 657-675: the save that closes a seed
FinishConference ==
    /\ runPc = "links"
    /\ linkIdx > Len(content_links)
    /\ \E saved \in {save_papers_to_db(all_papers, Database(dbExists, dbFault))} :
           /\ db' = db \o saved.rows
           /\ attempts' = attempts \o saved.attempts
           /\ dbExists' = saved.exists
    /\ conferences' = Tail(conferences)
    /\ runPc' = "next"
    \* time.sleep(3) of line 675
    /\ pageTimeline' = Append(pageTimeline, "sleep")
    /\ UNCHANGED <<content_links, linkIdx, lastPapers, all_papers, dbFault,
                   visits, lastPage, nonRunVars>>

\* run_scraper, lines 681-683: the loop is over
Quit ==
    /\ runPc = "next"
    /\ conferences = <<>>
    /\ runPc' = "done"
    /\ UNCHANGED <<conferences, content_links, linkIdx, lastPapers, all_papers,
                   dbExists, db, dbFault, attempts, visits, lastPage,
                   pageTimeline, nonRunVars>>

(***************************************************************************)
(* get_countries_conf_updated.py: AuthorCountryLookup.                     *)
(* A dict is a function whose domain is the set of its keys.  An HTTP      *)
(* exchange is the response the session returns; the responses a run can   *)
(* meet are fixed per request key in `world`, since every key is requested *)
(* at most once before its answer is cached.                               *)
(***************************************************************************)
\* cache[k] = v
SetItem(cache, k, v) ==
    [x \in (DOMAIN cache) \cup {k} |-> IF x = k THEN v ELSE cache[x]]

RECURSIVE SplitOn(_, _)
\* s.split(c)
SplitOn(s, c) ==
    IF \A i \in 1..Len(s) : s[i] # c THEN <<s>>
    ELSE LET k == CHOOSE i \in 1..Len(s) :
                      s[i] = c /\ \A j \in 1..(i - 1) : s[j] # c
         IN  <<SubSeq(s, 1, k - 1)>> \o SplitOn(SubSeq(s, k + 1, Len(s)), c)

\* title.lower().strip()
clean_title(title) == Strip(Lower(title))

SsPrefix == <<"s","s","_">>

\* f"ss_{clean_title}"
cache_key(title) == SsPrefix \o clean_title(title)

\* the keyword table of extract_country_from_semantic_scholar, in the
\* order of the dict literal (the order .items() iterates in)
country_keywords ==
    <<
      [keyword |-> <<"i","n","d","i","a">>, country_code |-> <<"I","N">>],
      [keyword |-> <<"d","e","l","h","i">>, country_code |-> <<"I","N">>],
      [keyword |-> <<"m","u","m","b","a","i">>, country_code |-> <<"I","N">>],
      [keyword |-> <<"b","a","n","g","a","l","o","r","e">>, country_code |-> <<"I","N">>],
      [keyword |-> <<"c","h","e","n","n","a","i">>, country_code |-> <<"I","N">>],
      [keyword |-> <<"h","y","d","e","r","a","b","a","d">>, country_code |-> <<"I","N">>],
      [keyword |-> <<"k","o","l","k","a","t","a">>, country_code |-> <<"I","N">>],
      [keyword |-> <<"p","u","n","e">>, country_code |-> <<"I","N">>],
      [keyword |-> <<"i","i","t">>, country_code |-> <<"I","N">>],
      [keyword |-> <<"i","i","s","c">>, country_code |-> <<"I","N">>],
      [keyword |-> <<"i","n","d","i","a","n"," ","i","n","s","t","i","t","u","t","e">>, country_code |-> <<"I","N">>],
      [keyword |-> <<"n","i","t">>, country_code |-> <<"I","N">>],
      [keyword |-> <<"b","i","t","s">>, country_code |-> <<"I","N">>],
      [keyword |-> <<"a","n","n","a"," ","u","n","i","v","e","r","s","i","t","y">>, country_code |-> <<"I","N">>],
      [keyword |-> <<"p","a","k","i","s","t","a","n">>, country_code |-> <<"P","K">>],
      [keyword |-> <<"k","a","r","a","c","h","i">>, country_code |-> <<"P","K">>],
      [keyword |-> <<"l","a","h","o","r","e">>, country_code |-> <<"P","K">>],
      [keyword |-> <<"i","s","l","a","m","a","b","a","d">>, country_code |-> <<"P","K">>],
      [keyword |-> <<"r","a","w","a","l","p","i","n","d","i">>, country_code |-> <<"P","K">>],
      [keyword |-> <<"f","a","i","s","a","l","a","b","a","d">>, country_code |-> <<"P","K">>],
      [keyword |-> <<"p","e","s","h","a","w","a","r">>, country_code |-> <<"P","K">>],
      [keyword |-> <<"q","u","e","t","t","a">>, country_code |-> <<"P","K">>],
      [keyword |-> <<"m","u","l","t","a","n">>, country_code |-> <<"P","K">>],
      [keyword |-> <<"g","u","j","r","a","n","w","a","l","a">>, country_code |-> <<"P","K">>],
      [keyword |-> <<"l","u","m","s">>, country_code |-> <<"P","K">>],
      [keyword |-> <<"n","u","s","t">>, country_code |-> <<"P","K">>],
      [keyword |-> <<"c","o","m","s","a","t","s">>, country_code |-> <<"P","K">>],
      [keyword |-> <<"b","a","n","g","l","a","d","e","s","h">>, country_code |-> <<"B","D">>],
      [keyword |-> <<"d","h","a","k","a">>, country_code |-> <<"B","D">>],
      [keyword |-> <<"c","h","i","t","t","a","g","o","n","g">>, country_code |-> <<"B","D">>],
      [keyword |-> <<"s","y","l","h","e","t">>, country_code |-> <<"B","D">>],
      [keyword |-> <<"r","a","j","s","h","a","h","i">>, country_code |-> <<"B","D">>],
      [keyword |-> <<"b","u","e","t">>, country_code |-> <<"B","D">>],
      [keyword |-> <<"d","u">>, country_code |-> <<"B","D">>],
      [keyword |-> <<"s","r","i"," ","l","a","n","k","a">>, country_code |-> <<"L","K">>],
      [keyword |-> <<"c","o","l","o","m","b","o">>, country_code |-> <<"L","K">>],
      [keyword |-> <<"k","a","n","d","y">>, country_code |-> <<"L","K">>],
      [keyword |-> <<"m","o","r","a","t","u","w","a">>, country_code |-> <<"L","K">>],
      [keyword |-> <<"n","e","p","a","l">>, country_code |-> <<"N","P">>],
      [keyword |-> <<"k","a","t","h","m","a","n","d","u">>, country_code |-> <<"N","P">>],
      [keyword |-> <<"t","r","i","b","h","u","v","a","n">>, country_code |-> <<"N","P">>],
      [keyword |-> <<"c","h","i","n","a">>, country_code |-> <<"C","N">>],
      [keyword |-> <<"b","e","i","j","i","n","g">>, country_code |-> <<"C","N">>],
      [keyword |-> <<"s","h","a","n","g","h","a","i">>, country_code |-> <<"C","N">>],
      [keyword |-> <<"g","u","a","n","g","z","h","o","u">>, country_code |-> <<"C","N">>],
      [keyword |-> <<"s","h","e","n","z","h","e","n">>, country_code |-> <<"C","N">>],
      [keyword |-> <<"h","a","n","g","z","h","o","u">>, country_code |-> <<"C","N">>],
      [keyword |-> <<"n","a","n","j","i","n","g">>, country_code |-> <<"C","N">>],
      [keyword |-> <<"w","u","h","a","n">>, country_code |-> <<"C","N">>],
      [keyword |-> <<"c","h","e","n","g","d","u">>, country_code |-> <<"C","N">>],
      [keyword |-> <<"x","i","'","a","n">>, country_code |-> <<"C","N">>],
      [keyword |-> <<"t","i","a","n","j","i","n">>, country_code |-> <<"C","N">>],
      [keyword |-> <<"t","s","i","n","g","h","u","a">>, country_code |-> <<"C","N">>],
      [keyword |-> <<"p","e","k","i","n","g">>, country_code |-> <<"C","N">>],
      [keyword |-> <<"f","u","d","a","n">>, country_code |-> <<"C","N">>],
      [keyword |-> <<"z","h","e","j","i","a","n","g">>, country_code |-> <<"C","N">>],
      [keyword |-> <<"s","j","t","u">>, country_code |-> <<"C","N">>],
      [keyword |-> <<"c","h","i","n","e","s","e"," ","a","c","a","d","e","m","y">>, country_code |-> <<"C","N">>],
      [keyword |-> <<"c","a","s">>, country_code |-> <<"C","N">>],
      [keyword |-> <<"p","k","u">>, country_code |-> <<"C","N">>],
      [keyword |-> <<"j","a","p","a","n">>, country_code |-> <<"J","P">>],
      [keyword |-> <<"t","o","k","y","o">>, country_code |-> <<"J","P">>],
      [keyword |-> <<"o","s","a","k","a">>, country_code |-> <<"J","P">>],
      [keyword |-> <<"k","y","o","t","o">>, country_code |-> <<"J","P">>],
      [keyword |-> <<"n","a","g","o","y","a">>, country_code |-> <<"J","P">>],
      [keyword |-> <<"y","o","k","o","h","a","m","a">>, country_code |-> <<"J","P">>],
      [keyword |-> <<"k","o","b","e">>, country_code |-> <<"J","P">>],
      [keyword |-> <<"s","e","n","d","a","i">>, country_code |-> <<"J","P">>],
      [keyword |-> <<"s","a","p","p","o","r","o">>, country_code |-> <<"J","P">>],
      [keyword |-> <<"t","o","d","a","i">>, country_code |-> <<"J","P">>],
      [keyword |-> <<"k","y","o","d","a","i">>, country_code |-> <<"J","P">>],
      [keyword |-> <<"w","a","s","e","d","a">>, country_code |-> <<"J","P">>],
      [keyword |-> <<"k","e","i","o">>, country_code |-> <<"J","P">>],
      [keyword |-> <<"k","o","r","e","a">>, country_code |-> <<"K","R">>],
      [keyword |-> <<"s","o","u","t","h"," ","k","o","r","e","a">>, country_code |-> <<"K","R">>],
      [keyword |-> <<"s","e","o","u","l">>, country_code |-> <<"K","R">>],
      [keyword |-> <<"b","u","s","a","n">>, country_code |-> <<"K","R">>],
      [keyword |-> <<"i","n","c","h","e","o","n">>, country_code |-> <<"K","R">>],
      [keyword |-> <<"d","a","e","g","u">>, country_code |-> <<"K","R">>],
      [keyword |-> <<"k","a","i","s","t">>, country_code |-> <<"K","R">>],
      [keyword |-> <<"s","n","u">>, country_code |-> <<"K","R">>],
      [keyword |-> <<"y","o","n","s","e","i">>, country_code |-> <<"K","R">>],
      [keyword |-> <<"p","o","s","t","e","c","h">>, country_code |-> <<"K","R">>],
      [keyword |-> <<"s","i","n","g","a","p","o","r","e">>, country_code |-> <<"S","G">>],
      [keyword |-> <<"n","u","s">>, country_code |-> <<"S","G">>],
      [keyword |-> <<"n","t","u">>, country_code |-> <<"S","G">>],
      [keyword |-> <<"s","m","u">>, country_code |-> <<"S","G">>],
      [keyword |-> <<"m","a","l","a","y","s","i","a">>, country_code |-> <<"M","Y">>],
      [keyword |-> <<"k","u","a","l","a"," ","l","u","m","p","u","r">>, country_code |-> <<"M","Y">>],
      [keyword |-> <<"j","o","h","o","r">>, country_code |-> <<"M","Y">>],
      [keyword |-> <<"p","e","n","a","n","g">>, country_code |-> <<"M","Y">>],
      [keyword |-> <<"u","m">>, country_code |-> <<"M","Y">>],
      [keyword |-> <<"u","t","m">>, country_code |-> <<"M","Y">>],
      [keyword |-> <<"u","s","m">>, country_code |-> <<"M","Y">>],
      [keyword |-> <<"u","p","m">>, country_code |-> <<"M","Y">>],
      [keyword |-> <<"t","h","a","i","l","a","n","d">>, country_code |-> <<"T","H">>],
      [keyword |-> <<"b","a","n","g","k","o","k">>, country_code |-> <<"T","H">>],
      [keyword |-> <<"c","h","i","a","n","g"," ","m","a","i">>, country_code |-> <<"T","H">>],
      [keyword |-> <<"c","h","u","l","a","l","o","n","g","k","o","r","n">>, country_code |-> <<"T","H">>],
      [keyword |-> <<"i","n","d","o","n","e","s","i","a">>, country_code |-> <<"I","D">>],
      [keyword |-> <<"j","a","k","a","r","t","a">>, country_code |-> <<"I","D">>],
      [keyword |-> <<"b","a","n","d","u","n","g">>, country_code |-> <<"I","D">>],
      [keyword |-> <<"s","u","r","a","b","a","y","a">>, country_code |-> <<"I","D">>],
      [keyword |-> <<"i","t","b">>, country_code |-> <<"I","D">>],
      [keyword |-> <<"u","i">>, country_code |-> <<"I","D">>],
      [keyword |-> <<"u","g","m">>, country_code |-> <<"I","D">>],
      [keyword |-> <<"p","h","i","l","i","p","p","i","n","e","s">>, country_code |-> <<"P","H">>],
      [keyword |-> <<"m","a","n","i","l","a">>, country_code |-> <<"P","H">>],
      [keyword |-> <<"q","u","e","z","o","n">>, country_code |-> <<"P","H">>],
      [keyword |-> <<"u","p">>, country_code |-> <<"P","H">>],
      [keyword |-> <<"a","t","e","n","e","o">>, country_code |-> <<"P","H">>],
      [keyword |-> <<"v","i","e","t","n","a","m">>, country_code |-> <<"V","N">>],
      [keyword |-> <<"h","a","n","o","i">>, country_code |-> <<"V","N">>],
      [keyword |-> <<"h","o"," ","c","h","i"," ","m","i","n","h">>, country_code |-> <<"V","N">>],
      [keyword |-> <<"h","c","m","c">>, country_code |-> <<"V","N">>],
      [keyword |-> <<"i","r","a","n">>, country_code |-> <<"I","R">>],
      [keyword |-> <<"t","e","h","r","a","n">>, country_code |-> <<"I","R">>],
      [keyword |-> <<"i","s","f","a","h","a","n">>, country_code |-> <<"I","R">>],
      [keyword |-> <<"m","a","s","h","h","a","d">>, country_code |-> <<"I","R">>],
      [keyword |-> <<"s","h","i","r","a","z">>, country_code |-> <<"I","R">>],
      [keyword |-> <<"s","h","a","r","i","f">>, country_code |-> <<"I","R">>],
      [keyword |-> <<"u","t">>, country_code |-> <<"I","R">>],
      [keyword |-> <<"t","u","r","k","e","y">>, country_code |-> <<"T","R">>],
      [keyword |-> <<"i","s","t","a","n","b","u","l">>, country_code |-> <<"T","R">>],
      [keyword |-> <<"a","n","k","a","r","a">>, country_code |-> <<"T","R">>],
      [keyword |-> <<"i","z","m","i","r">>, country_code |-> <<"T","R">>],
      [keyword |-> <<"b","o","g","a","z","i","c","i">>, country_code |-> <<"T","R">>],
      [keyword |-> <<"m","e","t","u">>, country_code |-> <<"T","R">>],
      [keyword |-> <<"b","i","l","k","e","n","t">>, country_code |-> <<"T","R">>],
      [keyword |-> <<"i","s","r","a","e","l">>, country_code |-> <<"I","L">>],
      [keyword |-> <<"t","e","l"," ","a","v","i","v">>, country_code |-> <<"I","L">>],
      [keyword |-> <<"j","e","r","u","s","a","l","e","m">>, country_code |-> <<"I","L">>],
      [keyword |-> <<"h","a","i","f","a">>, country_code |-> <<"I","L">>],
      [keyword |-> <<"t","e","c","h","n","i","o","n">>, country_code |-> <<"I","L">>],
      [keyword |-> <<"h","e","b","r","e","w"," ","u","n","i","v","e","r","s","i","t","y">>, country_code |-> <<"I","L">>],
      [keyword |-> <<"w","e","i","z","m","a","n","n">>, country_code |-> <<"I","L">>],
      [keyword |-> <<"s","a","u","d","i"," ","a","r","a","b","i","a">>, country_code |-> <<"S","A">>],
      [keyword |-> <<"r","i","y","a","d","h">>, country_code |-> <<"S","A">>],
      [keyword |-> <<"j","e","d","d","a","h">>, country_code |-> <<"S","A">>],
      [keyword |-> <<"k","a","u","s","t">>, country_code |-> <<"S","A">>],
      [keyword |-> <<"k","i","n","g"," ","s","a","u","d">>, country_code |-> <<"S","A">>],
      [keyword |-> <<"k","f","u","p","m">>, country_code |-> <<"S","A">>],
      [keyword |-> <<"u","a","e">>, country_code |-> <<"A","E">>],
      [keyword |-> <<"d","u","b","a","i">>, country_code |-> <<"A","E">>],
      [keyword |-> <<"a","b","u"," ","d","h","a","b","i">>, country_code |-> <<"A","E">>],
      [keyword |-> <<"a","u","b">>, country_code |-> <<"A","E">>],
      [keyword |-> <<"u","n","i","t","e","d"," ","k","i","n","g","d","o","m">>, country_code |-> <<"G","B">>],
      [keyword |-> <<"u","k">>, country_code |-> <<"G","B">>],
      [keyword |-> <<"e","n","g","l","a","n","d">>, country_code |-> <<"G","B">>],
      [keyword |-> <<"b","r","i","t","a","i","n">>, country_code |-> <<"G","B">>],
      [keyword |-> <<"c","a","m","b","r","i","d","g","e">>, country_code |-> <<"G","B">>],
      [keyword |-> <<"o","x","f","o","r","d">>, country_code |-> <<"G","B">>],
      [keyword |-> <<"l","o","n","d","o","n">>, country_code |-> <<"G","B">>],
      [keyword |-> <<"m","a","n","c","h","e","s","t","e","r">>, country_code |-> <<"G","B">>],
      [keyword |-> <<"e","d","i","n","b","u","r","g","h">>, country_code |-> <<"G","B">>],
      [keyword |-> <<"g","l","a","s","g","o","w">>, country_code |-> <<"G","B">>],
      [keyword |-> <<"b","r","i","s","t","o","l">>, country_code |-> <<"G","B">>],
      [keyword |-> <<"i","m","p","e","r","i","a","l">>, country_code |-> <<"G","B">>],
      [keyword |-> <<"u","c","l">>, country_code |-> <<"G","B">>],
      [keyword |-> <<"k","c","l">>, country_code |-> <<"G","B">>],
      [keyword |-> <<"l","s","e">>, country_code |-> <<"G","B">>],
      [keyword |-> <<"g","e","r","m","a","n","y">>, country_code |-> <<"D","E">>],
      [keyword |-> <<"b","e","r","l","i","n">>, country_code |-> <<"D","E">>],
      [keyword |-> <<"m","u","n","i","c","h">>, country_code |-> <<"D","E">>],
      [keyword |-> <<"h","a","m","b","u","r","g">>, country_code |-> <<"D","E">>],
      [keyword |-> <<"c","o","l","o","g","n","e">>, country_code |-> <<"D","E">>],
      [keyword |-> <<"f","r","a","n","k","f","u","r","t">>, country_code |-> <<"D","E">>],
      [keyword |-> <<"s","t","u","t","t","g","a","r","t">>, country_code |-> <<"D","E">>],
      [keyword |-> <<"d","u","s","s","e","l","d","o","r","f">>, country_code |-> <<"D","E">>],
      [keyword |-> <<"m","a","x"," ","p","l","a","n","c","k">>, country_code |-> <<"D","E">>],
      [keyword |-> <<"t","u","m">>, country_code |-> <<"D","E">>],
      [keyword |-> <<"k","i","t">>, country_code |-> <<"D","E">>],
      [keyword |-> <<"r","w","t","h">>, country_code |-> <<"D","E">>],
      [keyword |-> <<"f","r","a","n","c","e">>, country_code |-> <<"F","R">>],
      [keyword |-> <<"p","a","r","i","s">>, country_code |-> <<"F","R">>],
      [keyword |-> <<"l","y","o","n">>, country_code |-> <<"F","R">>],
      [keyword |-> <<"m","a","r","s","e","i","l","l","e">>, country_code |-> <<"F","R">>],
      [keyword |-> <<"t","o","u","l","o","u","s","e">>, country_code |-> <<"F","R">>],
      [keyword |-> <<"s","o","r","b","o","n","n","e">>, country_code |-> <<"F","R">>],
      [keyword |-> <<"i","n","r","i","a">>, country_code |-> <<"F","R">>],
      [keyword |-> <<"c","n","r","s">>, country_code |-> <<"F","R">>],
      [keyword |-> <<"i","t","a","l","y">>, country_code |-> <<"I","T">>],
      [keyword |-> <<"r","o","m","e">>, country_code |-> <<"I","T">>],
      [keyword |-> <<"m","i","l","a","n">>, country_code |-> <<"I","T">>],
      [keyword |-> <<"n","a","p","l","e","s">>, country_code |-> <<"I","T">>],
      [keyword |-> <<"t","u","r","i","n">>, country_code |-> <<"I","T">>],
      [keyword |-> <<"b","o","l","o","g","n","a">>, country_code |-> <<"I","T">>],
      [keyword |-> <<"f","l","o","r","e","n","c","e">>, country_code |-> <<"I","T">>],
      [keyword |-> <<"g","e","n","o","a">>, country_code |-> <<"I","T">>],
      [keyword |-> <<"s","p","a","i","n">>, country_code |-> <<"E","S">>],
      [keyword |-> <<"m","a","d","r","i","d">>, country_code |-> <<"E","S">>],
      [keyword |-> <<"b","a","r","c","e","l","o","n","a">>, country_code |-> <<"E","S">>],
      [keyword |-> <<"v","a","l","e","n","c","i","a">>, country_code |-> <<"E","S">>],
      [keyword |-> <<"s","e","v","i","l","l","e">>, country_code |-> <<"E","S">>],
      [keyword |-> <<"u","p","c">>, country_code |-> <<"E","S">>],
      [keyword |-> <<"u","a","m">>, country_code |-> <<"E","S">>],
      [keyword |-> <<"n","e","t","h","e","r","l","a","n","d","s">>, country_code |-> <<"N","L">>],
      [keyword |-> <<"a","m","s","t","e","r","d","a","m">>, country_code |-> <<"N","L">>],
      [keyword |-> <<"r","o","t","t","e","r","d","a","m">>, country_code |-> <<"N","L">>],
      [keyword |-> <<"u","t","r","e","c","h","t">>, country_code |-> <<"N","L">>],
      [keyword |-> <<"d","e","l","f","t">>, country_code |-> <<"N","L">>],
      [keyword |-> <<"e","i","n","d","h","o","v","e","n">>, country_code |-> <<"N","L">>],
      [keyword |-> <<"t","u","e">>, country_code |-> <<"N","L">>],
      [keyword |-> <<"s","w","e","d","e","n">>, country_code |-> <<"S","E">>],
      [keyword |-> <<"s","t","o","c","k","h","o","l","m">>, country_code |-> <<"S","E">>],
      [keyword |-> <<"g","o","t","h","e","n","b","u","r","g">>, country_code |-> <<"S","E">>],
      [keyword |-> <<"k","t","h">>, country_code |-> <<"S","E">>],
      [keyword |-> <<"c","h","a","l","m","e","r","s">>, country_code |-> <<"S","E">>],
      [keyword |-> <<"l","u","n","d">>, country_code |-> <<"S","E">>],
      [keyword |-> <<"s","w","i","t","z","e","r","l","a","n","d">>, country_code |-> <<"C","H">>],
      [keyword |-> <<"z","u","r","i","c","h">>, country_code |-> <<"C","H">>],
      [keyword |-> <<"g","e","n","e","v","a">>, country_code |-> <<"C","H">>],
      [keyword |-> <<"b","a","s","e","l">>, country_code |-> <<"C","H">>],
      [keyword |-> <<"e","t","h">>, country_code |-> <<"C","H">>],
      [keyword |-> <<"e","p","f","l">>, country_code |-> <<"C","H">>],
      [keyword |-> <<"c","e","r","n">>, country_code |-> <<"C","H">>],
      [keyword |-> <<"r","u","s","s","i","a">>, country_code |-> <<"R","U">>],
      [keyword |-> <<"m","o","s","c","o","w">>, country_code |-> <<"R","U">>],
      [keyword |-> <<"s","t"," ","p","e","t","e","r","s","b","u","r","g">>, country_code |-> <<"R","U">>],
      [keyword |-> <<"s","a","i","n","t"," ","p","e","t","e","r","s","b","u","r","g">>, country_code |-> <<"R","U">>],
      [keyword |-> <<"n","o","v","o","s","i","b","i","r","s","k">>, country_code |-> <<"R","U">>],
      [keyword |-> <<"m","s","u">>, country_code |-> <<"R","U">>],
      [keyword |-> <<"u","n","i","t","e","d"," ","s","t","a","t","e","s">>, country_code |-> <<"U","S">>],
      [keyword |-> <<"u","s","a">>, country_code |-> <<"U","S">>],
      [keyword |-> <<"a","m","e","r","i","c","a">>, country_code |-> <<"U","S">>],
      [keyword |-> <<"u",".","s",".">>, country_code |-> <<"U","S">>],
      [keyword |-> <<"c","a","l","i","f","o","r","n","i","a">>, country_code |-> <<"U","S">>],
      [keyword |-> <<"t","e","x","a","s">>, country_code |-> <<"U","S">>],
      [keyword |-> <<"n","e","w"," ","y","o","r","k">>, country_code |-> <<"U","S">>],
      [keyword |-> <<"f","l","o","r","i","d","a">>, country_code |-> <<"U","S">>],
      [keyword |-> <<"m","i","t">>, country_code |-> <<"U","S">>],
      [keyword |-> <<"s","t","a","n","f","o","r","d">>, country_code |-> <<"U","S">>],
      [keyword |-> <<"h","a","r","v","a","r","d">>, country_code |-> <<"U","S">>],
      [keyword |-> <<"b","e","r","k","e","l","e","y">>, country_code |-> <<"U","S">>],
      [keyword |-> <<"c","a","l","t","e","c","h">>, country_code |-> <<"U","S">>],
      [keyword |-> <<"p","r","i","n","c","e","t","o","n">>, country_code |-> <<"U","S">>],
      [keyword |-> <<"y","a","l","e">>, country_code |-> <<"U","S">>],
      [keyword |-> <<"c","o","l","u","m","b","i","a">>, country_code |-> <<"U","S">>],
      [keyword |-> <<"u","n","i","v","e","r","s","i","t","y"," ","o","f">>, country_code |-> <<"U","S">>],
      [keyword |-> <<"s","t","a","t","e"," ","u","n","i","v","e","r","s","i","t","y">>, country_code |-> <<"U","S">>],
      [keyword |-> <<"t","e","c","h">>, country_code |-> <<"U","S">>],
      [keyword |-> <<"c","a","n","a","d","a">>, country_code |-> <<"C","A">>],
      [keyword |-> <<"t","o","r","o","n","t","o">>, country_code |-> <<"C","A">>],
      [keyword |-> <<"v","a","n","c","o","u","v","e","r">>, country_code |-> <<"C","A">>],
      [keyword |-> <<"m","o","n","t","r","e","a","l">>, country_code |-> <<"C","A">>],
      [keyword |-> <<"c","a","l","g","a","r","y">>, country_code |-> <<"C","A">>],
      [keyword |-> <<"o","t","t","a","w","a">>, country_code |-> <<"C","A">>],
      [keyword |-> <<"u","b","c">>, country_code |-> <<"C","A">>],
      [keyword |-> <<"m","c","g","i","l","l">>, country_code |-> <<"C","A">>],
      [keyword |-> <<"w","a","t","e","r","l","o","o">>, country_code |-> <<"C","A">>],
      [keyword |-> <<"u","o","f","t">>, country_code |-> <<"C","A">>],
      [keyword |-> <<"a","u","s","t","r","a","l","i","a">>, country_code |-> <<"A","U">>],
      [keyword |-> <<"s","y","d","n","e","y">>, country_code |-> <<"A","U">>],
      [keyword |-> <<"m","e","l","b","o","u","r","n","e">>, country_code |-> <<"A","U">>],
      [keyword |-> <<"b","r","i","s","b","a","n","e">>, country_code |-> <<"A","U">>],
      [keyword |-> <<"p","e","r","t","h">>, country_code |-> <<"A","U">>],
      [keyword |-> <<"a","d","e","l","a","i","d","e">>, country_code |-> <<"A","U">>],
      [keyword |-> <<"u","n","s","w">>, country_code |-> <<"A","U">>],
      [keyword |-> <<"u","s","y","d">>, country_code |-> <<"A","U">>],
      [keyword |-> <<"u","n","i","m","e","l","b">>, country_code |-> <<"A","U">>],
      [keyword |-> <<"a","n","u">>, country_code |-> <<"A","U">>],
      [keyword |-> <<"m","o","n","a","s","h">>, country_code |-> <<"A","U">>],
      [keyword |-> <<"n","e","w"," ","z","e","a","l","a","n","d">>, country_code |-> <<"N","Z">>],
      [keyword |-> <<"a","u","c","k","l","a","n","d">>, country_code |-> <<"N","Z">>],
      [keyword |-> <<"w","e","l","l","i","n","g","t","o","n">>, country_code |-> <<"N","Z">>],
      [keyword |-> <<"c","h","r","i","s","t","c","h","u","r","c","h">>, country_code |-> <<"N","Z">>],
      [keyword |-> <<"s","o","u","t","h"," ","a","f","r","i","c","a">>, country_code |-> <<"Z","A">>],
      [keyword |-> <<"c","a","p","e"," ","t","o","w","n">>, country_code |-> <<"Z","A">>],
      [keyword |-> <<"j","o","h","a","n","n","e","s","b","u","r","g">>, country_code |-> <<"Z","A">>],
      [keyword |-> <<"d","u","r","b","a","n">>, country_code |-> <<"Z","A">>],
      [keyword |-> <<"u","c","t">>, country_code |-> <<"Z","A">>],
      [keyword |-> <<"w","i","t","s">>, country_code |-> <<"Z","A">>],
      [keyword |-> <<"s","t","e","l","l","e","n","b","o","s","c","h">>, country_code |-> <<"Z","A">>],
      [keyword |-> <<"e","g","y","p","t">>, country_code |-> <<"E","G">>],
      [keyword |-> <<"c","a","i","r","o">>, country_code |-> <<"E","G">>],
      [keyword |-> <<"a","l","e","x","a","n","d","r","i","a">>, country_code |-> <<"E","G">>],
      [keyword |-> <<"a","u","c">>, country_code |-> <<"E","G">>],
      [keyword |-> <<"b","r","a","z","i","l">>, country_code |-> <<"B","R">>],
      [keyword |-> <<"s","a","o"," ","p","a","u","l","o">>, country_code |-> <<"B","R">>],
      [keyword |-> <<"r","i","o"," ","d","e"," ","j","a","n","e","i","r","o">>, country_code |-> <<"B","R">>],
      [keyword |-> <<"b","r","a","s","i","l","i","a">>, country_code |-> <<"B","R">>],
      [keyword |-> <<"u","s","p">>, country_code |-> <<"B","R">>],
      [keyword |-> <<"u","n","i","c","a","m","p">>, country_code |-> <<"B","R">>],
      [keyword |-> <<"m","e","x","i","c","o">>, country_code |-> <<"M","X">>],
      [keyword |-> <<"m","e","x","i","c","o"," ","c","i","t","y">>, country_code |-> <<"M","X">>],
      [keyword |-> <<"g","u","a","d","a","l","a","j","a","r","a">>, country_code |-> <<"M","X">>],
      [keyword |-> <<"m","o","n","t","e","r","r","e","y">>, country_code |-> <<"M","X">>],
      [keyword |-> <<"u","n","a","m">>, country_code |-> <<"M","X">>],
      [keyword |-> <<"i","t","e","s","m">>, country_code |-> <<"M","X">>],
      [keyword |-> <<"a","r","g","e","n","t","i","n","a">>, country_code |-> <<"A","R">>],
      [keyword |-> <<"b","u","e","n","o","s"," ","a","i","r","e","s">>, country_code |-> <<"A","R">>],
      [keyword |-> <<"c","o","r","d","o","b","a">>, country_code |-> <<"A","R">>],
      [keyword |-> <<"u","b","a">>, country_code |-> <<"A","R">>],
      [keyword |-> <<"c","h","i","l","e">>, country_code |-> <<"C","L">>],
      [keyword |-> <<"s","a","n","t","i","a","g","o">>, country_code |-> <<"C","L">>],
      [keyword |-> <<"v","a","l","p","a","r","a","i","s","o">>, country_code |-> <<"C","L">>],
      [keyword |-> <<"u","c">>, country_code |-> <<"C","L">>]
    >>

\* the country code OpenAlex's answer yields: last_known_institution of
\* the first result, else the first affiliation whose institution has a
\* truthy country_code; None for an exception or an empty result list
OpenAlexCountry(response) ==
    IF ~response.ok \/ response.results = <<>> THEN NoneVal
    ELSE LET first_result == response.results[1]
             affiliations == first_result.affiliations
             coded == {i \in 1..Len(affiliations) : ~Falsy(affiliations[i])}
         IN  IF ~Falsy(first_result.last_known_institution)
             THEN first_result.last_known_institution
             ELSE IF coded = {} THEN NoneVal
             ELSE affiliations[CHOOSE i \in coded : \A j \in coded : i <= j]

\* as get_country_from_openalex, but the cache is never consulted
get_country_from_openalex_NoCacheCheck(cache, author_name, response) ==
    LET country_code == OpenAlexCountry(response)
    IN  [ value |-> country_code,
          author_cache |-> SetItem(cache, author_name, country_code),
          requests |-> <<[ api |-> "openalex", key |-> author_name,
                           cached_as |-> author_name ]>> ]

\* get_country_from_openalex(author_name) on the cache given, when the
\* session answers with `response`: the value returned, the cache after
\* the call and the requests issued
get_country_from_openalex(cache, author_name, response) ==
    IF author_name \in DOMAIN cache
    THEN [ value |-> cache[author_name], author_cache |-> cache,
           requests |-> <<>> ]
    ELSE LET country_code == OpenAlexCountry(response)
         IN  [ value |-> country_code,
               author_cache |-> SetItem(cache, author_name, country_code),
               requests |-> <<[ api |-> "openalex", key |-> author_name,
                           cached_as |-> author_name ]>> ]

\* paper_title in clean_title or clean_title in paper_title
TitleMatches(paper, cleaned) ==
    LET paper_title == Lower(paper.title)
    IN  Contains(cleaned, paper_title) \/ Contains(paper_title, cleaned)

\* the cached value of a search: the paper matched, or None
NoMatch == [found |-> FALSE, paper |-> NoS2Paper]

\* the first candidate of data['data'] whose title matches, or None
BestMatch(response, cleaned) ==
    IF response.status # "ok" THEN NoMatch
    ELSE LET hits == {i \in 1..Len(response.data) :
                          TitleMatches(response.data[i], cleaned)}
         IN  IF hits = {} THEN NoMatch
             ELSE [ found |-> TRUE,
                    paper |-> response.data[CHOOSE i \in hits :
                                                \A j \in hits : i <= j] ]

\* as get_semantic_scholar_paper, but only a matched paper is cached
get_semantic_scholar_paper_NoNegativeCache(cache, title, authors, response) ==
    LET key == cache_key(title)
    IN  IF key \in DOMAIN cache
        THEN [ match |-> cache[key], paper_cache |-> cache, requests |-> <<>> ]
        ELSE LET first_author == IF authors # <<>> THEN authors[1] ELSE <<>>
                 query == title \o <<" ">> \o first_author
                 match == BestMatch(response, clean_title(title))
             IN  [ match |-> match,
                   paper_cache |-> IF match.found
                                   THEN SetItem(cache, key, match) ELSE cache,
                   requests |-> <<[ api |-> "semanticscholar", key |-> query,
                                    cached_as |-> key ]>> ]

\* get_semantic_scholar_paper(title, authors) on the cache given, when
\* the session answers with `response`
get_semantic_scholar_paper(cache, title, authors, response) ==
    LET key == cache_key(title)
    IN  IF key \in DOMAIN cache
        THEN [ match |-> cache[key], paper_cache |-> cache, requests |-> <<>> ]
        ELSE LET first_author == IF authors # <<>> THEN authors[1] ELSE <<>>
                 query == title \o <<" ">> \o first_author
                 match == BestMatch(response, clean_title(title))
             IN  [ match |-> match,
                   paper_cache |-> SetItem(cache, key, match),
                   requests |-> <<[ api |-> "semanticscholar", key |-> query,
                                  cached_as |-> key ]>> ]

\* as FirstKeyword, but the last of the keywords hit wins
FirstKeyword_LastInTable(table, hits) ==
    IF hits = {} THEN NoneVal
    ELSE table[CHOOSE i \in hits : \A j \in hits : i >= j].country_code

\* the code of the first of the keywords hit, in table order; None if
\* none is hit
FirstKeyword(table, hits) ==
    IF hits = {} THEN NoneVal
    ELSE table[CHOOSE i \in hits : \A j \in hits : i <= j].country_code

\* the keyword loop on a lower-cased affiliation
ScanKeywords(affiliation_name, table) ==
    TheOnly({ FirstKeyword(table, hits) :
                hits \in {{i \in 1..Len(table) :
                              Contains(affiliation_name, table[i].keyword)}} })

\* the code of the first keyword, in table order, contained in the
\* lower-cased affiliation; None if no keyword is
KeywordCountry(affiliation) ==
    TheOnly({ ScanKeywords(affiliation_name, table) :
                affiliation_name \in {Lower(affiliation)},
                table \in {country_keywords} })

\* the first code in a list of codes; None if all are None
FirstCode(codes) ==
    IF \A i \in 1..Len(codes) : codes[i] = NoneVal THEN NoneVal
    ELSE codes[CHOOSE i \in 1..Len(codes) :
                   codes[i] # NoneVal /\ \A j \in 1..(i - 1) : codes[j] = NoneVal]

\* what the inner loop over one author's affiliations does: "raise" for
\* an affiliations value that cannot be iterated, else the first
\* affiliation's code that a keyword gives, else None
AuthorCountry(author) ==
    IF author.kind = "missing" THEN [raised |-> FALSE, value |-> NoneVal]
    ELSE IF author.kind = "null" THEN [raised |-> TRUE, value |-> NoneVal]
    ELSE [ raised |-> FALSE,
           value |-> TheOnly({ FirstCode(codes) :
                        codes \in {[i \in 1..Len(author.affiliations) |->
                                      KeywordCountry(author.affiliations[i])]} }) ]

\* the outcome of the first author that ends the scan: one that yields
\* a code or whose affiliations raise
FirstOutcome(outcomes) ==
    IF \A i \in 1..Len(outcomes) :
           ~outcomes[i].raised /\ outcomes[i].value = NoneVal
    THEN [raised |-> FALSE, value |-> NoneVal]
    ELSE outcomes[CHOOSE i \in 1..Len(outcomes) :
                      /\ outcomes[i].raised \/ outcomes[i].value # NoneVal
                      /\ \A j \in 1..(i - 1) :
                             ~outcomes[j].raised /\ outcomes[j].value = NoneVal]

\* extract_country_from_semantic_scholar(paper): the authors are scanned
\* in order; the scan ends at the first author that yields a code or
\* whose affiliations raise
extract_country_from_semantic_scholar(paper) ==
    IF paper.authors.kind = "missing" THEN [raised |-> FALSE, value |-> NoneVal]
    ELSE IF paper.authors.kind = "null" THEN [raised |-> TRUE, value |-> NoneVal]
    ELSE TheOnly({ FirstOutcome(outcomes) :
                     outcomes \in {[i \in 1..Len(paper.authors.items) |->
                                      AuthorCountry(paper.authors.items[i])]} })

(***************************************************************************)
(* The rows the resolver is run on and the answers of the two services.    *)
(***************************************************************************)
NameJane == <<"J","a","n","e"," ","D","o","e">>

NameLi == <<"L","i"," ","W","e","i">>

AuthorsJaneBob == <<"J","a","n","e"," ","D","o","e",","," ","B","o","b">>

AuthorsJane == <<"J","a","n","e"," ","D","o","e">>

AuthorsLi == <<"L","i"," ","W","e","i">>

AuthorsLiBob == <<"L","i"," ","W","e","i"," ",","," ","B","o","b">>

AuthorsNoFirst == <<" ",","," ","B","o","b">>

TitleDeepNets == <<"D","e","e","p"," ","N","e","t","s">>

TitleDeepNetsPadded == <<" ","D","E","E","P"," ","N","E","T","S"," ">>

TitleGraphs == <<"G","r","a","p","h","s">>

TitleShallowNets == <<"S","h","a","l","l","o","w"," ","N","e","t","s">>

TitleDeepNetsExtended == <<"D","e","e","p"," ","N","e","t","s",":"," ","E","x","t","e","n","d","e","d">>

AffPhysics == <<"D","e","p","t","."," ","o","f"," ","P","h","y","s","i","c","s">>

AffTsinghua == <<"T","s","i","n","g","h","u","a"," ","U","n","i","v","e","r","s","i","t","y">>

AffIndustrial == <<"I","n","d","u","s","t","r","i","a","l"," ","E","n","g",".",","," ","T","s","i","n","g","h","u","a">>

AffMit == <<"M","I","T">>

CodeUS == <<"U","S">>

CodeDE == <<"D","E">>

CodeJP == <<"J","P">>

\* the rows of conf_papers with a truthy title and a truthy authors string
valid_papers ==
    { [title |-> TitleDeepNets, authors |-> AuthorsJaneBob],
      [title |-> TitleDeepNetsPadded, authors |-> AuthorsLi],
      [title |-> TitleGraphs, authors |-> AuthorsLiBob],
      [title |-> TitleGraphs, authors |-> AuthorsJane],
      [title |-> TitleGraphs, authors |-> AuthorsNoFirst] }

OpenAlexError == [ok |-> FALSE, results |-> <<>>]

OpenAlexEmpty == [ok |-> TRUE, results |-> <<>>]

OpenAlexInstitution ==
    [ ok |-> TRUE,
      results |-> <<[last_known_institution |-> CodeUS, affiliations |-> <<>>]>> ]

OpenAlexAffiliations ==
    [ ok |-> TRUE,
      results |-> <<[ last_known_institution |-> NoneVal,
                      affiliations |-> <<NoneVal, CodeDE>> ]>> ]

\* a first result whose institution is in a country outside country_map
OpenAlexUnlisted ==
    [ ok |-> TRUE,
      results |-> <<[last_known_institution |-> CodeJP, affiliations |-> <<>>]>> ]

AffiliationList(texts) == [kind |-> "list", affiliations |-> texts]

NoAffiliations == [kind |-> "missing", affiliations |-> <<>>]

AuthorList(items) == [kind |-> "list", items |-> items]

PaperOther ==
    [ title |-> TitleShallowNets,
      authors |-> AuthorList(<<AffiliationList(<<AffPhysics>>)>>) ]

PaperTsinghua ==
    [ title |-> TitleDeepNets,
      authors |-> AuthorList(<<NoAffiliations,
                               AffiliationList(<<AffPhysics, AffTsinghua>>)>>) ]

PaperIndustrial ==
    [ title |-> TitleDeepNetsExtended,
      authors |-> AuthorList(<<AffiliationList(<<AffIndustrial>>)>>) ]

PaperEmptyTitle ==
    [ title |-> <<>>,
      authors |-> AuthorList(<<AffiliationList(<<AffMit>>)>>) ]

PaperNullAuthors ==
    [ title |-> TitleGraphs, authors |-> [kind |-> "null", items |-> <<>>] ]

SearchError == [status |-> "error", data |-> <<>>]

SearchNon200 == [status |-> "non200", data |-> <<>>]

SearchOk(data) == [status |-> "ok", data |-> data]

\* the cleaned titles of the rows
SearchedTitles == {clean_title(row.title) : row \in valid_papers}

\* what the two services answer, per author name and per cleaned title
Worlds ==
    { [ openalex |-> (NameJane :> jane) @@ (NameLi :> li),
        s2 |-> (clean_title(TitleDeepNets) :> deep)
               @@ (clean_title(TitleGraphs) :> graphs) ] :
        jane \in {OpenAlexError, OpenAlexInstitution},
        li \in {OpenAlexEmpty, OpenAlexAffiliations, OpenAlexUnlisted},
        deep \in {SearchError, SearchOk(<<PaperOther, PaperTsinghua>>),
                  SearchOk(<<PaperIndustrial>>)},
        graphs \in {SearchNon200, SearchOk(<<PaperEmptyTitle>>),
                    SearchOk(<<PaperNullAuthors>>)} }

\* [author.strip() for author in authors_str.split(',')]
SplitAuthors(authors_str) ==
    LET parts == SplitOn(authors_str, ",")
    IN  [i \in 1..Len(parts) |-> Strip(parts[i])]

\* as AfterSearch, without the assignment of line 309
AfterSearch_NoBackfill(first_author, tier1, tier2, country) ==
    LET after == [ result |-> NoneVal, raised |-> FALSE,
                   author_cache |-> tier1.author_cache,
                   paper_cache |-> tier2.paper_cache,
                   requests |-> tier1.requests \o tier2.requests ]
    IN  IF ~tier2.match.found THEN after
        ELSE IF country.raised THEN [after EXCEPT !.raised = TRUE]
        ELSE IF ~Falsy(country.value)
        THEN [after EXCEPT !.result = country.value]
        ELSE after

\* get_author_country from line 301 on: the paper search has returned
\* tier2 after the name lookup returned tier1 with no code
AfterSearch(first_author, tier1, tier2, country) ==
    LET after == [ result |-> NoneVal, raised |-> FALSE,
                   author_cache |-> tier1.author_cache,
                   paper_cache |-> tier2.paper_cache,
                   requests |-> tier1.requests \o tier2.requests ]
    IN  IF ~tier2.match.found THEN after
        ELSE IF country.raised THEN [after EXCEPT !.raised = TRUE]
        ELSE IF ~Falsy(country.value)
        THEN [after EXCEPT
                !.result = country.value,
                !.author_cache =
                    SetItem(tier1.author_cache, first_author, country.value)]
        ELSE after

\* as AfterSplit, but the paper search is made before the result of the
\* name lookup is looked at
AfterSplit_SearchFirst(title, authors, first_author, acache, pcache, w) ==
    TheOnly({
        TheOnly({
            IF ~Falsy(tier1.value)
            THEN [ result |-> tier1.value, raised |-> FALSE,
                   author_cache |-> tier1.author_cache,
                   paper_cache |-> tier2.paper_cache,
                   requests |-> tier2.requests \o tier1.requests ]
            ELSE TheOnly({ AfterSearch(first_author, tier1, tier2, country) :
                     country \in {IF tier2.match.found
                                  THEN extract_country_from_semantic_scholar(
                                           tier2.match.paper)
                                  ELSE [raised |-> FALSE, value |-> NoneVal]} }) :
            tier2 \in {get_semantic_scholar_paper(
                           pcache, title, authors,
                           w.s2[clean_title(title)])} }) :
        tier1 \in {get_country_from_openalex(acache, first_author,
                                             w.openalex[first_author])} })

\* get_author_country from line 297 on, the first author being non-empty
AfterSplit(title, authors, first_author, acache, pcache, w) ==
    TheOnly({
        IF ~Falsy(tier1.value)
        THEN [ result |-> tier1.value, raised |-> FALSE,
               author_cache |-> tier1.author_cache,
               paper_cache |-> pcache, requests |-> tier1.requests ]
        ELSE TheOnly({
                 TheOnly({ AfterSearch(first_author, tier1, tier2, country) :
                     country \in {IF tier2.match.found
                                  THEN extract_country_from_semantic_scholar(
                                           tier2.match.paper)
                                  ELSE [raised |-> FALSE, value |-> NoneVal]} }) :
                 tier2 \in {get_semantic_scholar_paper(
                                pcache, title, authors,
                                w.s2[clean_title(title)])} }) :
        tier1 \in {get_country_from_openalex(acache, first_author,
                                             w.openalex[first_author])} })

\* get_author_country(title, authors_str) on the two caches given, in
\* the world w: the value returned (or that an exception left the
\* method), both caches after the call and the requests issued
get_author_country(title, authors_str, acache, pcache, w) ==
    TheOnly({
        IF Falsy(authors[1])
        THEN [ result |-> NoneVal, raised |-> FALSE, author_cache |-> acache,
               paper_cache |-> pcache, requests |-> <<>> ]
        ELSE AfterSplit(title, authors, authors[1], acache, pcache, w) :
        authors \in {SplitAuthors(authors_str)} })

\* AuthorCountryLookup.__init__, before the first row is processed
InitResolver ==
    /\ author_cache = EmptyDict
    /\ paper_cache = EmptyDict
    /\ requests = <<>>
    /\ calls = 0
    /\ lastCall = NoCall
    /\ world \in Worlds
    /\ IdleLink /\ IdleEntry /\ IdleDedup /\ IdleDiscovery /\ IdleRun
    /\ IdleBatch /\ IdleJournal

\* one call lookup.get_author_country(title, authors) on a row
GetAuthorCountry ==
    /\ calls < MaxCalls
    /\ \E row \in valid_papers :
         \E r \in {get_author_country(row.title, row.authors, author_cache,
                                      paper_cache, world)} :
             /\ author_cache' = r.author_cache
             /\ paper_cache' = r.paper_cache
             /\ requests' = requests \o r.requests
             /\ lastCall' = [ title |-> row.title, authors_str |-> row.authors,
                              result |-> r.result, raised |-> r.raised,
                              author_cache |-> author_cache,
                              paper_cache |-> paper_cache,
                              requests |-> requests ]
    /\ calls' = calls + 1
    /\ UNCHANGED <<world, nonResolverVars>>

(***************************************************************************)
(* get_countries_conf_updated.py, the script around AuthorCountryLookup:   *)
(* the batch loop, the results summary with its per-country second pass,   *)
(* the CSV report and the closing statistics.  An exception that leaves    *)
(* get_author_country, or that a statement of the script raises, is caught *)
(* nowhere: the script ends there ("crashed").                             *)
(***************************************************************************)
\* country_map, in the order of the dict literal
country_map ==
    << [code |-> <<"I","N">>, name |-> "India"],
       [code |-> <<"P","K">>, name |-> "Pakistan"],
       [code |-> <<"B","D">>, name |-> "Bangladesh"],
       [code |-> <<"C","N">>, name |-> "China"],
       [code |-> <<"S","G">>, name |-> "Singapore"],
       [code |-> <<"M","Y">>, name |-> "Malaysia"],
       [code |-> <<"K","R">>, name |-> "South Korea"],
       [code |-> <<"U","S">>, name |-> "United States"],
       [code |-> <<"G","B">>, name |-> "United Kingdom"],
       [code |-> <<"D","E">>, name |-> "Germany"],
       [code |-> <<"L","K">>, name |-> "Sri Lanka"],
       [code |-> <<"I","R">>, name |-> "Iran"],
       [code |-> <<"T","R">>, name |-> "Turkey"],
       [code |-> <<"A","U">>, name |-> "Australia"],
       [code |-> <<"F","R">>, name |-> "France"] >>

\* country_code in country_map
InCountryMap(country_code) ==
    \E k \in 1..Len(country_map) : country_map[k].code = country_code

\* country_map[country_code]
CountryName(country_code) ==
    country_map[CHOOSE k \in 1..Len(country_map) :
                    country_map[k].code = country_code].name

\* country_counter[country] += 1 on a Counter kept in insertion order
Increment(counter, country) ==
    IF \E k \in 1..Len(counter) : counter[k].country = country
    THEN [k \in 1..Len(counter) |->
             IF counter[k].country = country
             THEN [counter[k] EXCEPT !.count = @ + 1] ELSE counter[k]]
    ELSE Append(counter, [country |-> country, count |-> 1])

\* Counter.most_common(): by count, largest first; equal counts in
\* insertion order
most_common(counter) ==
    LET Before(m, k) ==
            \/ counter[m].count > counter[k].count
            \/ counter[m].count = counter[k].count /\ m < k
        Rank(k) == Cardinality({m \in 1..Len(counter) : Before(m, k)}) + 1
    IN  [p \in 1..Len(counter) |->
             counter[CHOOSE k \in 1..Len(counter) : Rank(k) = p]]

\* the rows the script reads from conf_papers, at most MaxRows of them
RowLists == BoundedSeq(valid_papers, MaxRows)

\* the script before the batch loop
InitBatch ==
    /\ author_cache = EmptyDict
    /\ paper_cache = EmptyDict
    /\ requests = <<>>
    /\ calls = 0
    /\ lastCall = NoCall
    /\ world \in Worlds
    /\ batchRows \in RowLists
    /\ batchPc = "loop"
    /\ rowIdx = 1
    /\ total_lookups = 0
    /\ successful_lookups = 0
    /\ country_counter = <<>>
    /\ no_country_found = <<>>
    /\ ranking = <<>>
    /\ countryIdx = 1
    /\ passIdx = 1
    /\ country_papers = <<>>
    /\ listed = <<>>
    /\ csvfile = NoCsv
    /\ loopOutcomes = <<>>
    /\ apiTimeline = <<>>
    /\ IdleLink /\ IdleEntry /\ IdleDedup /\ IdleDiscovery /\ IdleRun
    /\ IdleJournal

\* the call lookup.get_author_country(title, authors_str) of the script:
\* the caches, the request log and the call record after it
\* the HTTP requests a call sent, in order, each named by its API
RoundTrips(r) == [i \in 1..Len(r.requests) |-> r.requests[i].api]

CallFromScript(row, r) ==
    /\ author_cache' = r.author_cache
    /\ paper_cache' = r.paper_cache
    /\ requests' = requests \o r.requests
    /\ calls' = calls + 1
    /\ lastCall' = [ title |-> row.title, authors_str |-> row.authors,
                     result |-> r.result, raised |-> r.raised,
                     author_cache |-> author_cache,
                     paper_cache |-> paper_cache,
                     requests |-> requests ]

\* the else branch of `if country_code:` is taken
Unresolved(country_code) == Falsy(country_code)

\* one iteration of the batch loop
ProcessRow ==
    /\ batchPc = "loop"
    /\ rowIdx <= Len(batchRows)
    /\ \E row \in {batchRows[rowIdx]} :
       \E first_author \in {SplitAuthors(row.authors)[1]} :
         IF Falsy(first_author)
         THEN /\ rowIdx' = rowIdx + 1
              /\ UNCHANGED <<resolverVars, batchPc, total_lookups,
                             successful_lookups, country_counter,
                             no_country_found, loopOutcomes, apiTimeline>>
         ELSE \E r \in {get_author_country(row.title, row.authors,
                                          author_cache, paper_cache, world)} :
              /\ CallFromScript(row, r)
              /\ UNCHANGED world
              /\ total_lookups' = total_lookups + 1
              \* the requests of the call, then the time.sleep of lines
              \* 382-387
              /\ apiTimeline' =
                     apiTimeline \o RoundTrips(r)
                         \o (IF r.raised THEN <<>> ELSE <<"sleep">>)
              /\ IF r.raised
                 THEN /\ batchPc' = "crashed"
                      /\ UNCHANGED <<rowIdx, successful_lookups,
                                     country_counter, no_country_found,
                                     loopOutcomes>>
                 ELSE /\ rowIdx' = rowIdx + 1
                      /\ UNCHANGED batchPc
                      /\ loopOutcomes' =
                             Append(loopOutcomes,
                                    [ author |-> first_author,
                                      title |-> row.title,
                                      country_code |-> r.result ])
                      /\ IF ~Unresolved(r.result)
                         THEN /\ successful_lookups' = successful_lookups + 1
                              /\ country_counter' =
                                     IF InCountryMap(r.result)
                                     THEN Increment(country_counter,
                                                    CountryName(r.result))
                                     ELSE country_counter
                              /\ UNCHANGED no_country_found
                         ELSE /\ no_country_found' =
                                     Append(no_country_found,
                                            [ author |-> first_author,
                                              title |-> row.title ])
                              /\ UNCHANGED <<successful_lookups,
                                             country_counter>>
    /\ UNCHANGED <<batchRows, ranking, countryIdx, passIdx, country_papers,
                   listed, csvfile, scraperVars>>

\* the head of the results summary: the success rate is printed, which
\* divides by total_lookups, and the countries are ranked
Summary ==
    /\ batchPc = "loop"
    /\ rowIdx > Len(batchRows)
    /\ IF total_lookups = 0
       THEN /\ batchPc' = "crashed"
            /\ UNCHANGED ranking
       ELSE /\ ranking' = most_common(country_counter)
            /\ batchPc' = IF country_counter = <<>> THEN "csv" ELSE "second"
    /\ UNCHANGED <<resolverVars, batchRows, rowIdx, total_lookups,
                   successful_lookups, country_counter, no_country_found,
                   countryIdx, passIdx, country_papers, listed, csvfile,
                   loopOutcomes, apiTimeline,
                   scraperVars>>

\* country_papers after row passIdx has been looked at for the country
Collected(row, r, country) ==
    IF /\ ~Falsy(r.result)
       /\ InCountryMap(r.result)
       /\ CountryName(r.result) = country
    THEN Append(country_papers,
                [ paper_number |-> passIdx, title |-> row.title,
                  first_author |-> SplitAuthors(row.authors)[1] ])
    ELSE country_papers

\* the end of one inner iteration of the second pass: the next row, or
\* the samples of the country are printed and the next country begins,
\* or the second pass is over
Advance(country, papers) ==
    IF passIdx < Len(batchRows)
    THEN /\ passIdx' = passIdx + 1
         /\ country_papers' = papers
         /\ UNCHANGED <<countryIdx, listed, batchPc>>
    ELSE /\ passIdx' = 1
         /\ country_papers' = <<>>
         /\ listed' = Append(listed, [ country |-> country,
                                       count |-> ranking[countryIdx].count,
                                       papers |-> papers ])
         /\ countryIdx' = countryIdx + 1
         /\ batchPc' = IF countryIdx < Len(ranking) THEN "second" ELSE "csv"

\* one inner iteration of the per-country second pass
SecondPassRow ==
    /\ batchPc = "second"
    /\ \E row \in {batchRows[passIdx]} :
       \E country \in {ranking[countryIdx].country} :
         IF Falsy(SplitAuthors(row.authors)[1])
         THEN /\ Advance(country, country_papers)
              /\ UNCHANGED <<resolverVars, apiTimeline>>
         ELSE \E r \in {get_author_country(row.title, row.authors,
                                          author_cache, paper_cache, world)} :
              /\ CallFromScript(row, r)
              /\ UNCHANGED world
              /\ apiTimeline' = apiTimeline \o RoundTrips(r)
              /\ IF r.raised
                 THEN /\ batchPc' = "crashed"
                      /\ UNCHANGED <<passIdx, country_papers, countryIdx,
                                     listed>>
                 ELSE Advance(country, Collected(row, r, country))
    /\ UNCHANGED <<batchRows, rowIdx, total_lookups, successful_lookups,
                   country_counter, no_country_found, ranking, csvfile,
                   loopOutcomes, scraperVars>>

\* the CSV report of the unresolved pairs, written only if there are any
WriteCsv ==
    /\ batchPc = "csv"
    /\ csvfile' = IF no_country_found # <<>>
                  THEN [written |-> TRUE, rows |-> no_country_found]
                  ELSE NoCsv
    /\ batchPc' = "stats"
    /\ UNCHANGED <<resolverVars, batchRows, rowIdx, total_lookups,
                   successful_lookups, country_counter, no_country_found,
                   ranking, countryIdx, passIdx, country_papers, listed,
                   loopOutcomes, apiTimeline,
                   scraperVars>>

\* the cache statistics and conn.close()
CloseBatch ==
    /\ batchPc = "stats"
    /\ batchPc' = "done"
    /\ UNCHANGED <<resolverVars, batchRows, rowIdx, total_lookups,
                   successful_lookups, country_counter, no_country_found,
                   ranking, countryIdx, passIdx, country_papers, listed,
                   csvfile, loopOutcomes, apiTimeline,
                   scraperVars>>

(***************************************************************************)
(* dblp_journals_scrapper.py: DBLPJournalScraper.extract_volume_info and   *)
(* the year and volume fields of extract_journal_paper_info.  re.search    *)
(* returns the leftmost match; NoneVal stands for no match.  A volume_info *)
(* argument is None or a dict (isNone, items).                             *)
(***************************************************************************)
\* \d
IsDigit(c) == c \in {"0","1","2","3","4","5","6","7","8","9"}

\* as IsWordChar, with the hyphen counted as a word character
IsWordChar_WithHyphen(c) ==
    IsDigit(c) \/ c = "_" \/ c = "-" \/ \E i \in 1..26 : LowerLetters[i] = LowerChar(c)

\* \w
IsWordChar(c) ==
    IsDigit(c) \/ c = "_" \/ \E i \in 1..26 : LowerLetters[i] = LowerChar(c)

\* \b at the position before s[i] (i = Len(s) + 1: the end of the string)
WordBoundary(s, i) ==
    (i > 1 /\ IsWordChar(s[i - 1])) # (i <= Len(s) /\ IsWordChar(s[i]))

\* (19|20)\d{2} matches s[i..i+3]
FourDigitYearAt(s, i) ==
    /\ i + 3 <= Len(s)
    /\ <<s[i], s[i + 1]>> \in {<<"1","9">>, <<"2","0">>}
    /\ IsDigit(s[i + 2]) /\ IsDigit(s[i + 3])

\* the leftmost of the positions where a pattern matches, 0 when there is
\* none
Leftmost(positions) ==
    IF positions = {} THEN 0
    ELSE CHOOSE i \in positions : \A j \in positions : i <= j

\* r'\b(19|20)\d{2}\b' matches at i
YearAt(s, i) ==
    WordBoundary(s, i) /\ FourDigitYearAt(s, i) /\ WordBoundary(s, i + 4)

\* re.search(r'\b(19|20)\d{2}\b', s): group(), or NoneVal
SearchYear(s) ==
    LET At(i) == YearAt(s, i)
        k == Leftmost({i \in 1..Len(s) : At(i)})
    IN  IF k = 0 THEN NoneVal ELSE SubSeq(s, k, k + 3)

\* the end of the match of r'\b(19|20)\d{2}-(19|20)?\d{2}\b' that starts at
\* i, 0 when there is none: the optional group is tried first
YearRangeEnd(s, i) ==
    IF ~(WordBoundary(s, i) /\ FourDigitYearAt(s, i) /\ i + 4 <= Len(s)
         /\ s[i + 4] = "-")
    THEN 0
    ELSE IF FourDigitYearAt(s, i + 5) /\ WordBoundary(s, i + 9) THEN i + 8
    ELSE IF i + 6 <= Len(s) /\ IsDigit(s[i + 5]) /\ IsDigit(s[i + 6])
            /\ WordBoundary(s, i + 7)
    THEN i + 6
    ELSE 0

\* re.search(r'\b(19|20)\d{2}-(19|20)?\d{2}\b', s): group(), or NoneVal
SearchYearRange(s) ==
    LET At(i) == YearRangeEnd(s, i) # 0
        k == Leftmost({i \in 1..Len(s) : At(i)})
    IN  IF k = 0 THEN NoneVal ELSE SubSeq(s, k, YearRangeEnd(s, k))

RECURSIVE SkipSpaces(_, _)
\* \s* from position j: the position after the white space
SkipSpaces(s, j) ==
    IF j <= Len(s) /\ IsSpace(s[j]) THEN SkipSpaces(s, j + 1) ELSE j

RECURSIVE DigitsFrom(_, _)
\* (\d+) from position j: the digits matched ('' when s[j] is no digit)
DigitsFrom(s, j) ==
    IF j <= Len(s) /\ IsDigit(s[j]) THEN <<s[j]>> \o DigitsFrom(s, j + 1)
    ELSE <<>>

\* the literal matches s at position i, whatever the case (re.IGNORECASE)
LiteralAt(s, i, literal) ==
    /\ i + Len(literal) - 1 <= Len(s)
    /\ Lower(SubSeq(s, i, i + Len(literal) - 1)) = literal

VolumeWord == <<"v","o","l","u","m","e">>

VolWord == <<"v","o","l">>

\* re.search(r'volume\s*(\d+)', s, re.IGNORECASE): group(1), or NoneVal
SearchVolumeWord(s) ==
    LET Digits(i) == DigitsFrom(s, SkipSpaces(s, i + Len(VolumeWord)))
        At(i) == LiteralAt(s, i, VolumeWord) /\ Digits(i) # <<>>
        k == Leftmost({i \in 1..Len(s) : At(i)})
    IN  IF k = 0 THEN NoneVal ELSE Digits(k)

\* re.search(r'vol\.?\s*(\d+)', s, re.IGNORECASE): group(1), or NoneVal
SearchVolAbbrev(s) ==
    LET AfterDot(i) == IF i + 3 <= Len(s) /\ s[i + 3] = "." THEN i + 4 ELSE i + 3
        Digits(i) == DigitsFrom(s, SkipSpaces(s, AfterDot(i)))
        At(i) == LiteralAt(s, i, VolWord) /\ Digits(i) # <<>>
        k == Leftmost({i \in 1..Len(s) : At(i)})
    IN  IF k = 0 THEN NoneVal ELSE Digits(k)

\* lines 468-479: the year and the branch that set it
VolumeYear(volume_text) ==
    IF SearchYear(volume_text) # NoneVal
    THEN [year |-> SearchYear(volume_text), path |-> "exact"]
    ELSE IF SearchYearRange(volume_text) # NoneVal
    THEN [year |-> SplitOn(SearchYearRange(volume_text), "-")[1], path |-> "range"]
    ELSE [year |-> <<>>, path |-> "none"]

\* extract_volume_info(volume_text): the dict returned
extract_volume_info(volume_text) ==
    [ volume |-> IF SearchVolumeWord(volume_text) # NoneVal
                 THEN SearchVolumeWord(volume_text)
                 ELSE IF SearchVolAbbrev(volume_text) # NoneVal
                 THEN SearchVolAbbrev(volume_text)
                 ELSE <<>>,
      year   |-> VolumeYear(volume_text).year ]

\* volume_info=None
NoContext == [isNone |-> TRUE, items |-> EmptyDict]

Context(items) == [isNone |-> FALSE, items |-> items]

\* `volume_info and key in volume_info`
Supplies(volume_info, key) ==
    /\ ~volume_info.isNone
    /\ DOMAIN volume_info.items # {}
    /\ key \in DOMAIN volume_info.items

\* paper_data['title'] (lines 249-261): the text of the first title element
\* found (title_text, NoneVal when no selector finds one), else the first
\* line of the text of the paper element
JournalTitle(title_text, paper_text) ==
    IF title_text # NoneVal /\ Strip(title_text) # <<>> THEN Strip(title_text)
    ELSE Strip(SplitLines(paper_text)[1])

\* the title, year and volume that extract_journal_paper_info puts in
\* paper_data (lines 249-261, 293-308), for the text of the paper element
extract_journal_paper_info(title_text, paper_text, volume_info) ==
    [ title  |-> JournalTitle(title_text, paper_text),
      year   |-> IF Supplies(volume_info, "year") THEN volume_info.items["year"]
                 ELSE IF SearchYear(paper_text) # NoneVal
                 THEN SearchYear(paper_text)
                 ELSE <<>>,
      volume |-> IF Supplies(volume_info, "volume") THEN volume_info.items["volume"]
                 ELSE IF SearchVolAbbrev(paper_text) # NoneVal
                 THEN SearchVolAbbrev(paper_text)
                 ELSE <<>> ]

\* pieces of volume link texts
VolumeFragments ==
    { <<"V","o","l","u","m","e"," ","1","2"," ">>,
      <<"v","o","l",".","3",",">>,
      <<"2","0","1","7","-","2","0","1","9">>,
      <<"2","0","1","7","-","1","9">>,
      <<"1","9","9","9">>,
      <<"x">> }

VolumeTexts == {Concat(fs) : fs \in BoundedSeq(VolumeFragments, MaxVolumeFrags)}

\* texts of paper elements
PaperTexts ==
    { <<>>,
      <<"A"," ","p","a","p","e","r",".">>,
      <<"J","."," ","V","o","l","."," ","7",","," ","2","0","0","1">>,
      <<"v","o","l","u","m","e"," ","9"," ","(","V","O","L","4",")",",",
        " ","1","9","9","8","-","2","0","0","0">> }

\* texts of title elements: none found, an empty one, a title
JournalTitleTexts == {NoneVal, <<>>, <<"A"," ","p","a","p","e","r",".">>}

NoJournalPaper == [title |-> NoneVal, year |-> NoneVal, volume |-> NoneVal]

\* s[:n]
Truncated(s, n) == SubSeq(s, 1, IF Len(s) < n THEN Len(s) ELSE n)

\* the row save_journal_papers_to_db inserts for a paper (lines 346-384)
JournalRow(paper) ==
    [ name |-> Truncated(paper.title, 500), year |-> paper.year,
      volume |-> paper.volume ]

\* save_journal_papers_to_db(papers, journal_href): journal_papers after it
save_journal_papers_to_db(papers, table) ==
    table \o [i \in 1..Len(papers) |-> JournalRow(papers[i])]

\* a volume link of scrape_journal (lines 422-434), or a call of
\* extract_journal_paper_info that is given no volume_info or an empty one
InitJournal ==
    /\ paperText \in PaperTexts
    /\ titleText \in JournalTitleTexts
    /\ (titleText # NoneVal /\ titleText # <<>>) => Contains(paperText, titleText)
    /\ volume_papers = <<>>
    /\ journal_papers = <<>>
    /\ \/ /\ volumeText \in VolumeTexts
          /\ volumeInfo = NoContext
          /\ journalPc = "link"
       \/ /\ volumeText = NoneVal
          /\ volumeInfo \in {NoContext, Context(EmptyDict)}
          /\ journalPc = "volume"
    /\ yearPath = "none"
    /\ journalPaper = NoJournalPaper
    /\ IdleLink /\ IdleEntry /\ IdleDedup /\ IdleDiscovery /\ IdleRun
    /\ IdleResolver /\ IdleBatch

\* line 427: volume_info = self.extract_volume_info(volume_link['text'])
ExtractVolumeInfo ==
    /\ journalPc = "link"
    /\ volumeInfo' = Context(extract_volume_info(volumeText))
    /\ yearPath' = VolumeYear(volumeText).path
    /\ journalPc' = "volume"
    /\ UNCHANGED <<volumeText, paperText, journalPaper, titleText,
                   volume_papers, journal_papers, nonJournalVars>>

\* line 223: extract_journal_paper_info(paper_element, journal_info,
\* volume_info) for one paper element of the volume
ExtractJournalPaperInfo ==
    /\ journalPc = "volume"
    /\ \E paper_data \in {extract_journal_paper_info(titleText, paperText,
                                                     volumeInfo)} :
           /\ journalPaper' = paper_data
           \* `if paper_data:` (line 224): the dict has keys, so it is truthy
           /\ volume_papers' = Append(volume_papers, paper_data)
    /\ journalPc' = "paper"
    /\ UNCHANGED <<volumeText, volumeInfo, yearPath, paperText, titleText,
                   journal_papers, nonJournalVars>>

\* scrape_journal, lines 443-446: the papers of the volumes are saved
SaveJournalPapers ==
    /\ journalPc = "paper"
    /\ journal_papers' =
           IF volume_papers # <<>>
           THEN save_journal_papers_to_db(volume_papers, journal_papers)
           ELSE journal_papers
    /\ journalPc' = "saved"
    /\ UNCHANGED <<volumeText, volumeInfo, yearPath, paperText, journalPaper,
                   titleText, volume_papers, nonJournalVars>>

(***************************************************************************)
(* Specifications: one per component, each over its own inputs.            *)
(***************************************************************************)
InitLink ==
    /\ url \in LinkInputs
    /\ linkResult = FALSE
    /\ linkPc = "input"
    /\ IdleEntry /\ IdleDedup /\ IdleDiscovery /\ IdleRun /\ IdleResolver
    /\ IdleBatch /\ IdleJournal

\* one call of is_valid_content_link(url)
ClassifyLink ==
    /\ linkPc = "input"
    /\ linkResult' = is_valid_content_link(url)
    /\ linkPc' = "done"
    /\ UNCHANGED <<url, nonLinkVars>>

NextLink == ClassifyLink

SpecLink == InitLink /\ [][NextLink]_vars

NextEntry == IsPaperEntry \/ ExtractPaperData

SpecEntry == InitEntry /\ [][NextEntry]_vars

NextDedup == DedupOnce \/ DedupAgain

SpecDedup == InitDedup /\ [][NextDedup]_vars

NextDiscovery == ScrapeContentLinks

SpecDiscovery == InitDiscovery /\ [][NextDiscovery]_vars

NextRun == StartConference \/ ProcessLink \/ FinishConference \/ Quit

SpecRun == InitRun /\ [][NextRun]_vars

NextResolver == GetAuthorCountry

SpecResolver == InitResolver /\ [][NextResolver]_vars

NextBatch ==
    ProcessRow \/ Summary \/ SecondPassRow \/ WriteCsv \/ CloseBatch

SpecBatch == InitBatch /\ [][NextBatch]_vars

NextJournal ==
    ExtractVolumeInfo \/ ExtractJournalPaperInfo \/ SaveJournalPapers

SpecJournal == InitJournal /\ [][NextJournal]_vars

(***************************************************************************)
(* Claims about the link classifier (checked under SpecLink).              *)
(***************************************************************************)
MatchesDenylistAnyCase(u) ==
    u # NoneVal /\ \E i \in 1..Len(skip_patterns) : Contains(Lower(u), skip_patterns[i])

MatchesAllowlist(u) ==
    u # NoneVal /\ \E i \in 1..Len(valid_patterns) : Contains(u, valid_patterns[i])

\* C1: a URL that contains, in any letter case, an entry of the denylist is
\* rejected by is_valid_content_link, also when it contains 'dblp.org' and
\* allowlist patterns.
C1_DenylistAlwaysRejects ==
    (linkPc = "done" /\ MatchesDenylistAnyCase(url)) => linkResult = FALSE

\* a classified URL with the domain, an allowlist pattern and a denylist entry
\* that occurs only in upper or mixed case
C1_Witness ==
    /\ linkPc = "done"
    /\ Contains(url, DblpDomain)
    /\ MatchesAllowlist(url)
    /\ MatchesDenylistAnyCase(url)
    /\ ~\E i \in 1..Len(skip_patterns) : Contains(url, skip_patterns[i])
    /\ linkResult = FALSE

\* C2: is_valid_content_link returns True exactly for a non-empty string that
\* contains 'dblp.org', matches no denylist entry (in any letter case) and
\* contains at least one allowlist pattern.
C2_AcceptedIffDomainNoDenyAllow ==
    linkPc = "done" =>
        (linkResult = TRUE <=>
            /\ ~Falsy(url)
            /\ Contains(url, DblpDomain)
            /\ ~MatchesDenylistAnyCase(url)
            /\ MatchesAllowlist(url))

\* an accepted URL
C2_Witness ==
    /\ linkPc = "done"
    /\ linkResult = TRUE
    /\ Contains(url, DblpDomain)
    /\ MatchesAllowlist(url)

(***************************************************************************)
(* Claims about the record extractor (checked under SpecEntry).            *)
(***************************************************************************)
HasEditorialTag(el) ==
    el.classes # NoneVal
    /\ (Contains(el.classes, EditorTag) \/ Contains(el.classes, TocTag))

HasTypeTag(el) ==
    el.classes # NoneVal
    /\ \E i \in 1..Len(paper_indicators) : Contains(el.classes, paper_indicators[i])

HasLongTitle(el, n) == el.spanTitle # NoneVal /\ Len(Strip(el.spanTitle)) >= n

\* C3: a node whose class attribute contains 'editor' or 'toc' is rejected by
\* is_paper_entry, whatever type tag, author elements or title it carries.
C3_EditorialRejected ==
    (entryPc = "classified" /\ HasEditorialTag(elem)) => isPaper = FALSE

\* a rejected editorial node that has a type tag, an author element and a
\* title longer than 10 characters
C3_Witness ==
    /\ entryPc = "classified"
    /\ HasEditorialTag(elem)
    /\ HasTypeTag(elem)
    /\ Len(elem.authorElems) > 0
    /\ HasLongTitle(elem, 11)
    /\ isPaper = FALSE

\* C4: without an editorial tag is_paper_entry accepts exactly when the class
\* has a type tag, or there is an author element, or the trimmed title is
\* longer than 10 characters; a node accepted on its title alone (11 or more
\* characters) is extracted with that trimmed title and empty authors, and a
\* 10-character title alone is rejected.
C4_CascadeAndTitleFallback ==
    /\ (entryPc \in {"classified", "extracted"} /\ ~HasEditorialTag(elem)) =>
           (isPaper <=> \/ HasTypeTag(elem)
                        \/ Len(elem.authorElems) > 0
                        \/ HasLongTitle(elem, 11))
    /\ (/\ entryPc \in {"classified", "extracted"}
        /\ ~HasEditorialTag(elem) /\ ~HasTypeTag(elem)
        /\ elem.authorElems = <<>>
        /\ elem.spanTitle # NoneVal /\ Len(Strip(elem.spanTitle)) = 10) =>
           isPaper = FALSE
    /\ (/\ entryPc = "extracted"
        /\ ~HasTypeTag(elem)
        /\ elem.authorElems = <<>>) =>
           /\ HasLongTitle(elem, 11)
           /\ paperData.name = Strip(elem.spanTitle)
           /\ paperData.authors = <<>>

\* a node with no tag and no author element, accepted on an 11-character
\* title and extracted
C4_Witness ==
    /\ entryPc = "extracted"
    /\ ~HasEditorialTag(elem) /\ ~HasTypeTag(elem)
    /\ elem.authorElems = <<>>
    /\ Len(Strip(elem.spanTitle)) = 11
    /\ paperData.name = Strip(elem.spanTitle)
    /\ paperData.authors = <<>>

\* C5: for a node with both a span.title and a cite element the record's
\* title is the trimmed span.title text, and cite is not queried for it.
C5_DedicatedTitleWins ==
    (entryPc = "extracted" /\ elem.spanTitle # NoneVal /\ elem.cite # NoneVal) =>
        /\ paperData.name = Strip(elem.spanTitle)
        /\ "cite" \notin queried

\* an extracted node whose cite block would have given another title
C5_Witness ==
    /\ entryPc = "extracted"
    /\ elem.spanTitle # NoneVal /\ elem.cite # NoneVal
    /\ TitleFromCite(elem.cite) # <<>>
    /\ TitleFromCite(elem.cite) # Strip(elem.spanTitle)
    /\ paperData.name = Strip(elem.spanTitle)

(***************************************************************************)
(* Claims about the record-level deduplicator (checked under SpecDedup).   *)
(***************************************************************************)
NormKey(r) == <<Strip(Lower(r.name)), Strip(Lower(r.authors))>>

\* the positions of papers that hold the first record of their key
FirstOfKey(papers) ==
    {i \in 1..Len(papers) : \A j \in 1..(i - 1) : NormKey(papers[j]) # NormKey(papers[i])}

\* out lists exactly the records of papers at the positions I, in order
IsSubsequenceAt(out, papers, I) ==
    /\ Len(out) = Cardinality(I)
    /\ \A i \in I :
           out[Cardinality({j \in I : j <= i})] = papers[i]

\* C7: the deduplicated list is the order-preserving subsequence that holds,
\* for each (lowercased-trimmed title, lowercased-trimmed authors) key, exactly
\* the first record with that key, whatever the other fields are.
C7_DedupKeepsFirstPerKey ==
    dedupPc \in {"once", "twice"} =>
        IsSubsequenceAt(dedupOut, dedupIn, FirstOfKey(dedupIn))

\* two records with one key and different page URLs, of which the first is
\* kept and the second dropped, followed by a record with another key
C7_Witness ==
    /\ dedupPc = "once"
    /\ Len(dedupIn) = 3
    /\ NormKey(dedupIn[1]) = NormKey(dedupIn[2])
    /\ dedupIn[1].conference_href # dedupIn[2].conference_href
    /\ dedupIn[1].name # dedupIn[2].name
    /\ NormKey(dedupIn[3]) # NormKey(dedupIn[1])
    /\ dedupOut = <<dedupIn[1], dedupIn[3]>>

\* C8: the dedup step applied to its own output returns that output.
C8_DedupIdempotent ==
    dedupPc = "twice" => dedupOut2 = dedupOut

\* a second pass over a list from which the first pass dropped a record
C8_Witness ==
    /\ dedupPc = "twice"
    /\ Len(dedupOut) >= 2
    /\ Len(dedupOut) < Len(dedupIn)
    /\ dedupOut2 = dedupOut

(***************************************************************************)
(* Claims about link discovery (checked under SpecDiscovery).              *)
(***************************************************************************)
\* the links of the entry-structured pass over the page
StructuredPass(page) ==
    IF page.fault = "none" THEN StructuredLinks(page.entries) ELSE <<>>

\* the links of the page-wide scan
PageWideScan(page) ==
    IF page.fault = "load" THEN <<>> ELSE find_additional_content_links(page)

\* the positions of links that hold the first descriptor of their URL
FirstOfUrl(links) ==
    {i \in 1..Len(links) : \A j \in 1..(i - 1) : links[j].url # links[i].url}

\* C9: scrape_conference_content_links returns no URL twice; the list is the
\* order-preserving subsequence that keeps the first descriptor of each URL of
\* the per-entry TOC and navigation links followed by the page-wide links, so a
\* URL both passes found keeps the descriptor of the entry-structured pass.
C9_LinksUniqueFirstWins ==
    linksPc = "done" =>
        LET structured == StructuredPass(seedPage)
            all == structured \o PageWideScan(seedPage)
            structuredUrls == {structured[k].url : k \in 1..Len(structured)}
        IN  /\ \A i, j \in 1..Len(contentLinks) :
                   contentLinks[i].url = contentLinks[j].url => i = j
            /\ IsSubsequenceAt(contentLinks, all, FirstOfUrl(all))
            /\ \A i \in 1..Len(contentLinks) :
                   contentLinks[i].url \in structuredUrls
                   => contentLinks[i].section # "additional"

\* a URL found by both passes, returned once with the structured descriptor,
\* before a link only the page-wide scan found
C9_Witness ==
    /\ linksPc = "done"
    /\ Len(contentLinks) >= 2
    /\ contentLinks[1].section = "toc-link"
    /\ LET scan == PageWideScan(seedPage)
       IN  \E k \in 1..Len(scan) : scan[k].url = contentLinks[1].url
    /\ contentLinks[Len(contentLinks)].section = "additional"

(***************************************************************************)
(* Claims about the conference pipeline (checked under SpecRun).           *)
(***************************************************************************)
HasTitle(rec) == Strip(rec.name) # <<>>

\* the page has a node that is_paper_entry accepts and whose resolved title
\* is empty after trimming
HasEmptyTitledPaper(page) ==
    \E i \in 1..Len(page.elements) :
        /\ is_paper_entry(page.elements[i])
        /\ Strip(ExtractTitle(page.elements[i]).name) = <<>>

\* C6: a conference record whose resolved title is empty after trimming is in
\* no list scrape_papers_from_content_page returns and in no row that
\* insert_conf_paper or save_papers_to_db writes.
C6_EmptyTitleDiscarded ==
    /\ \A i \in 1..Len(lastPapers) : HasTitle(lastPapers[i])
    /\ \A i \in 1..Len(all_papers) : HasTitle(all_papers[i])
    /\ \A i \in 1..Len(db) : HasTitle(db[i].rec)

\* a page with an accepted node of empty title has been scraped, and rows of
\* both writers are in the table
C6_Witness ==
    /\ runPc = "links"
    /\ linkIdx > 1
    /\ HasEmptyTitledPaper(lastPage)
    /\ lastPapers # <<>>
    /\ \E i \in 1..Len(db) : db[i].via = "insert_conf_paper"
    /\ \E i \in 1..Len(db) : db[i].via = "save_papers_to_db"

(***************************************************************************)
(* Claims about the country resolver.                                      *)
(***************************************************************************)
\* the first author of the last call's authors string
LastFirstAuthor == SplitAuthors(lastCall.authors_str)[1]

\* before the last call, author_cache mapped its first author to a code
LastFirstAuthorWasCached ==
    /\ calls > 0
    /\ LastFirstAuthor \in DOMAIN lastCall.author_cache
    /\ lastCall.author_cache[LastFirstAuthor] # NoneVal

\* C10: when author_cache already maps the first author to a country code
\* (not None), get_author_country returns that code, whatever the title,
\* sends no request to either service and leaves author_cache and
\* paper_cache as they were.
C10_CachedAuthorShortCircuits ==
    LastFirstAuthorWasCached =>
        /\ ~lastCall.raised
        /\ lastCall.result = lastCall.author_cache[LastFirstAuthor]
        /\ requests = lastCall.requests
        /\ author_cache = lastCall.author_cache
        /\ paper_cache = lastCall.paper_cache

\* a call whose first author was cached with a code, for a title that no
\* search was ever made for, returned the code
C10_Witness ==
    /\ LastFirstAuthorWasCached
    /\ cache_key(lastCall.title) \notin DOMAIN paper_cache
    /\ lastCall.result = CodeUS
    /\ requests # <<>>

\* what the name lookup of the last call returned (from the cache or from
\* the service)
LastTier1 ==
    get_country_from_openalex(lastCall.author_cache, LastFirstAuthor,
                              world.openalex[LastFirstAuthor])

\* what the paper search of the last call returned (from the cache or
\* from the service)
LastTier2 ==
    get_semantic_scholar_paper(lastCall.paper_cache, lastCall.title,
                               SplitAuthors(lastCall.authors_str),
                               world.s2[clean_title(lastCall.title)])

\* the last call had a first author, its name lookup yielded no code and
\* its paper search matched a paper
LastCallReachedMatch ==
    /\ calls > 0
    /\ ~Falsy(LastFirstAuthor)
    /\ Falsy(LastTier1.value)
    /\ LastTier2.match.found

KeywordTsinghua == <<"t","s","i","n","g","h","u","a">>

CodeCN == <<"C","N">>

\* an affiliation text of the paper's first author contains 'Tsinghua',
\* in any letter case
FirstAuthorAtTsinghua(paper) ==
    /\ paper.authors.kind = "list"
    /\ paper.authors.items # <<>>
    /\ paper.authors.items[1].kind = "list"
    /\ \E i \in 1..Len(paper.authors.items[1].affiliations) :
           Contains(Lower(paper.authors.items[1].affiliations[i]),
                    KeywordTsinghua)

\* C11: when the name lookup yields none for the first author and the
\* paper search matches a paper whose first author's affiliation text
\* contains 'Tsinghua' (any letter case, any surrounding text),
\* get_author_country returns 'CN' and author_cache then maps the first
\* author's name to 'CN'.
C11_TsinghuaYieldsCN ==
    (LastCallReachedMatch /\ FirstAuthorAtTsinghua(LastTier2.match.paper)) =>
        /\ ~lastCall.raised
        /\ lastCall.result = CodeCN
        /\ LastFirstAuthor \in DOMAIN author_cache
        /\ author_cache[LastFirstAuthor] = CodeCN

\* the requests the last call sent, in order
LastRequests == SubSeq(requests, Len(lastCall.requests) + 1, Len(requests))

\* C12: within one get_author_country call the paper search (and
\* paper_cache) comes only after the name lookup has yielded none: a
\* paper-search request is never followed by a name-lookup request, and
\* when the name lookup (from the cache or from the service) yields a
\* code, the call returns that code, sends no paper-search request and
\* leaves paper_cache unchanged.
C12_SearchOnlyAfterLookupYieldsNone ==
    (calls > 0 /\ ~Falsy(LastFirstAuthor)) =>
        /\ \A i, j \in 1..Len(LastRequests) :
               (LastRequests[i].api = "semanticscholar"
                    /\ LastRequests[j].api = "openalex") => j < i
        /\ ~Falsy(LastTier1.value) =>
               /\ ~lastCall.raised
               /\ lastCall.result = LastTier1.value
               /\ \A i \in 1..Len(LastRequests) :
                      LastRequests[i].api # "semanticscholar"
               /\ paper_cache = lastCall.paper_cache

\* a call whose name lookup asked the service and got a code: it
\* returned the code, and no search for its title was ever cached
C12_Witness ==
    /\ calls > 0
    /\ ~Falsy(LastFirstAuthor)
    /\ LastFirstAuthor \notin DOMAIN lastCall.author_cache
    /\ ~Falsy(LastTier1.value)
    /\ lastCall.result = LastTier1.value
    /\ Len(LastRequests) = 1
    /\ cache_key(lastCall.title) \notin DOMAIN paper_cache

(***************************************************************************)
(* Claims about the resolver script.                                       *)
(***************************************************************************)
\* C13: every network, HTTP-status or response-shape error of either
\* tier, a malformed matched paper included, is swallowed inside the tier
\* and counts as 'no result': get_author_country never raises, and the
\* batch loop goes on to the next (title, authors) pair instead of ending
\* with the exception.
C13_TierErrorsSwallowed ==
    calls > 0 =>
        /\ ~lastCall.raised
        /\ batchPc # "crashed"

\* the positions in the request log of the requests sent to one service
RequestsTo(api) == {k \in 1..Len(requests) : requests[k].api = api}

\* C14: over a whole run of the script (batch loop and second pass) the
\* name-lookup service is asked at most once per exact author name and
\* the paper-search service at most once per lower-cased, trimmed title:
\* the outcome of every request, failure and 'no match' included, is in
\* the cache, so the request is never sent again.
C14_AtMostOneRequestPerKey ==
    /\ \A k, m \in RequestsTo("openalex") :
           requests[k].key = requests[m].key => k = m
    /\ \A k, m \in RequestsTo("semanticscholar") :
           requests[k].cached_as = requests[m].cached_as => k = m
    /\ \A k \in RequestsTo("openalex") :
           requests[k].cached_as \in DOMAIN author_cache
    /\ \A k \in RequestsTo("semanticscholar") :
           requests[k].cached_as \in DOMAIN paper_cache

\* a finished run in which two rows with the same cleaned title stayed
\* unresolved after a single paper search for that title
C14_Witness ==
    /\ batchPc = "done"
    /\ \E a, b \in 1..Len(no_country_found) :
           /\ a < b
           /\ cache_key(no_country_found[a].title)
                  = cache_key(no_country_found[b].title)
           /\ no_country_found[a].title # no_country_found[b].title
           /\ Cardinality({k \in RequestsTo("semanticscholar") :
                  requests[k].cached_as
                      = cache_key(no_country_found[a].title)}) = 1

\* the (first author, title) pairs of the batch-loop calls that returned
\* none, in order
PairsReturnedNone ==
    LET GotNone(o) == o.country_code = NoneVal
        none == SelectSeq(loopOutcomes, GotNone)
    IN  [k \in 1..Len(none) |->
            [author |-> none[k].author, title |-> none[k].title]]

\* the script has ended, normally or with an uncaught exception
BatchEnded == batchPc \in {"done", "crashed"}

\* C15: in the batch loop, for each paper with a non-empty first author,
\* the pair (first author, title) is appended to the unresolved list
\* (and so written to the CSV report) if and only if get_author_country
\* returned none for it; a paper for which a code was returned, even one
\* outside country_map, is not listed.
C15_UnresolvedListedAndReported ==
    /\ no_country_found = PairsReturnedNone
    /\ (BatchEnded /\ PairsReturnedNone # <<>>) =>
           csvfile = [written |-> TRUE, rows |-> PairsReturnedNone]


(***************************************************************************)
(* Claims about the failures of the conference pipeline.                   *)
(***************************************************************************)
\* the INSERTs that insert_conf_paper tried, as indexes of attempts
InsertCalls == {i \in 1..Len(attempts) : attempts[i].via = "insert_conf_paper"}

\* the call returned the ROWID of the row it wrote
ReturnedItsRowid(a) ==
    /\ a.result.kind = "int"
    /\ a.result.value \in 1..Len(db)
    /\ db[a.result.value] = [via |-> "insert_conf_paper", rec |-> a.rec]

\* C16: insert_conf_paper returns the ROWID of the inserted row on success
\* and returns None, without raising, whenever insertion fails (database file
\* missing, connection cannot be opened, INSERT rejected).
C16_InsertReturnsRowidOrNone ==
    \A i \in InsertCalls :
        IF attempts[i].wrote
        THEN ~attempts[i].raised /\ ReturnedItsRowid(attempts[i])
        ELSE ~attempts[i].raised /\ attempts[i].result = ReturnedNone

\* the INSERTs the step tried
NewAttempts == SubSeq(attempts', Len(attempts) + 1, Len(attempts'))

\* the paper_href of the records of these INSERTs that function via tried
HrefsTried(tried, via) ==
    LET mine == SelectSeq(tried, LAMBDA a : a.via = via)
    IN  [i \in 1..Len(mine) |-> mine[i].rec.paper_href]

\* the paper_href of the nodes of the page that are papers with a title, in
\* page order
KeptHrefs(page) ==
    LET kept == SelectSeq(PaperElements(page),
                          LAMBDA el : /\ is_paper_entry(el)
                                      /\ Strip(ExtractTitle(el).name) # <<>>)
    IN  [i \in 1..Len(kept) |-> kept[i].recHref]

\* the step visited a content link / a seed
LinkVisited == Len(visits') = Len(visits) + 1 /\ visits'[Len(visits')].kind = "link"

SeedVisited == Len(visits') = Len(visits) + 1 /\ visits'[Len(visits')].kind = "seed"

\* whatever fails for one record, every paper of a page that loads has its
\* INSERT tried by insert_conf_paper
SiblingRecordsProcessed ==
    (LinkVisited /\ lastPage'.fault = "none") =>
        HrefsTried(NewAttempts, "insert_conf_paper") = KeptHrefs(lastPage')

\* a call of save_papers_to_db that tries one INSERT tries one for every
\* record of its batch
SiblingSavesAttempted ==
    HrefsTried(NewAttempts, "save_papers_to_db") # <<>> =>
        HrefsTried(NewAttempts, "save_papers_to_db")
            = [i \in 1..Len(all_papers') |-> all_papers'[i].paper_href]

\* a content link, failing or not, leaves the links after it to be visited;
\* a seed, failing or not, leaves the seeds after it to be visited; the
\* links are left only after the last one and the run ends only after the
\* last seed
SiblingLinksAndSeedsProcessed ==
    /\ LinkVisited =>
           /\ runPc' = "links" /\ content_links' = content_links
           /\ linkIdx' = linkIdx + 1 /\ conferences' = conferences
    /\ SeedVisited =>
           \/ runPc' = "next" /\ conferences' = Tail(conferences)
           \/ runPc' = "links" /\ conferences' = conferences /\ linkIdx' = 1
    /\ (runPc = "links" /\ runPc' # "links") =>
           /\ linkIdx > Len(content_links)
           /\ runPc' = "next" /\ conferences' = Tail(conferences)
    /\ runPc' = "done" => conferences' = <<>>

\* C19: in the conference scraper a failure never stops processing of
\* siblings: an exception while classifying, extracting or inserting one
\* record leaves every later record of the page processed; an insert failure
\* for one record in save_papers_to_db leaves every remaining record of the
\* batch attempted; a failure for one content link or one seed leaves every
\* remaining link and seed processed.
C19_FailureNeverStopsSiblings ==
    [][ /\ SiblingRecordsProcessed
        /\ SiblingSavesAttempted
        /\ SiblingLinksAndSeedsProcessed ]_vars

\* a seed that failed was followed by another seed, a content link that
\* failed by another link, a node that raised by two papers of its page, a
\* rejected INSERT of save_papers_to_db by another INSERT of the same batch
C19_Witness ==
    /\ \E i \in 1..Len(visits) : \E j \in (i + 1)..Len(visits) :
           /\ visits[i] = Visit("seed", "load") /\ visits[j].kind = "seed"
    /\ \E i \in 1..Len(visits) :
           /\ i < Len(visits)
           /\ visits[i] = Visit("link", "load") /\ visits[i + 1].kind = "link"
    /\ lastPage = PageC
    /\ \E i \in 1..Len(attempts) : \E j \in (i + 1)..Len(attempts) :
           /\ attempts[i].via = "insert_conf_paper" /\ ~attempts[i].wrote
           /\ attempts[j].via = "insert_conf_paper" /\ attempts[j].wrote
    /\ \E i \in 1..Len(attempts) :
           /\ i < Len(attempts)
           /\ attempts[i].via = "save_papers_to_db" /\ ~attempts[i].wrote
           /\ attempts[i + 1].via = "save_papers_to_db" /\ attempts[i + 1].wrote
           /\ attempts[i + 1].rec # attempts[i].rec

\* the rows the step wrote to conf_papers
NewRows == SubSeq(db', Len(db) + 1, Len(db'))

\* C20: in the conference pipeline a record reaches the Persistence Sink only
\* after the record-level deduplication of its page: every row written to
\* conf_papers is a record that survived the (title, authors) dedup, so a
\* duplicate dropped within one extraction batch is never persisted.
C20_PersistedOnlyAfterDedup ==
    [][\A i \in 1..Len(NewRows) : NewRows[i].rec \in Range(all_papers')]_vars

(***************************************************************************)
(* Claims about the journal scraper (checked under SpecJournal).           *)
(***************************************************************************)
\* the value the Volume context supplies for the key: '' when there is no
\* context or the context has no such key
ContextValue(key) ==
    IF ~volumeInfo.isNone /\ key \in DOMAIN volumeInfo.items
    THEN volumeInfo.items[key]
    ELSE <<>>

\* the year and the volume parsed from the record's own text
YearOfPaperText ==
    IF SearchYear(paperText) # NoneVal THEN SearchYear(paperText) ELSE <<>>

VolumeOfPaperText ==
    IF SearchVolAbbrev(paperText) # NoneVal THEN SearchVolAbbrev(paperText)
    ELSE <<>>

\* C17: in extract_journal_paper_info the record's year (resp. volume) equals
\* the Volume context's year (resp. volume) whenever the context supplies a
\* non-empty value; when the context does not supply one (no context, or the
\* value parsed from the volume link text is empty), the year (resp. volume)
\* is parsed from the record's own text.
C17_ContextValueElseOwnText ==
    journalPc = "paper" =>
        /\ journalPaper.year =
               IF ContextValue("year") # <<>> THEN ContextValue("year")
               ELSE YearOfPaperText
        /\ journalPaper.volume =
               IF ContextValue("volume") # <<>> THEN ContextValue("volume")
               ELSE VolumeOfPaperText

\* the position of the leftmost 19xx/20xx token of the volume link text that
\* stands between word boundaries, 0 when there is none
FirstYearToken ==
    LET At(i) == YearAt(volumeText, i)
    IN  Leftmost({i \in 1..Len(volumeText) : At(i)})

\* the volume link text has a hyphenated year range between word boundaries
HasYearRange == SearchYearRange(volumeText) # NoneVal

Range2017 == <<"2","0","1","7","-","2","0","1","9">>

Year2017 == <<"2","0","1","7">>

\* '2017-2019' stands in the volume link text at position i
Range2017At(i) ==
    /\ i + Len(Range2017) - 1 <= Len(volumeText)
    /\ SubSeq(volumeText, i, i + Len(Range2017) - 1) = Range2017

\* the text contains '2017-2019', between word boundaries, and no exact
\* 4-digit token outside it
OnlyRange2017 ==
    \E i \in 1..Len(volumeText) :
        /\ Range2017At(i)
        /\ WordBoundary(volumeText, i)
        /\ WordBoundary(volumeText, i + Len(Range2017))
        /\ \A j \in 1..Len(volumeText) :
               YearAt(volumeText, j) => j \in {i, i + 5}

\* extract_volume_info has run on a volume link text
VolumeInfoExtracted == journalPc = "volume" /\ volumeText # NoneVal

\* the year is the first exact 19xx/20xx token when there is one, otherwise
\* the first year of a hyphenated range, otherwise ''
YearPrefersExactToken ==
    volumeInfo.items["year"] =
        IF FirstYearToken # 0
        THEN SubSeq(volumeText, FirstYearToken, FirstYearToken + 3)
        ELSE IF HasYearRange THEN SubSeq(SearchYearRange(volumeText), 1, 4)
        ELSE <<>>

TitleText(t) == IF t = NoneVal THEN <<>> ELSE Strip(t)

\* the title after a chain in which a source that yields no text hands over
\* to the next one
ChainedTitle(el) ==
    IF TitleText(el.spanTitle) # <<>> THEN TitleText(el.spanTitle)
    ELSE IF TitleText(FindHeadlineTitle(el)) # <<>>
    THEN TitleText(FindHeadlineTitle(el))
    ELSE IF el.cite # NoneVal THEN TitleFromCite(el.cite)
    ELSE <<>>

\* C21: in extract_paper_data each link of the title fallback chain is tried
\* whenever the previous link produced no title: if the dedicated title
\* element is absent, or is present but yields empty text after trimming, the
\* title is taken from the alternate nested title path and, failing that,
\* from the first line of the citation block that is longer than 20
\* characters and does not start with 'http'.
C21_TitleChainFallsThrough ==
    entryPc = "extracted" => paperData.name = ChainedTitle(elem)

(***************************************************************************)
(* C22: pacing of the round-trips.                                         *)
(***************************************************************************)
\* no two neighbours of the timeline are round-trips: a sleep lies between
\* any round-trip and the next one
Spaced(timeline) ==
    \A i \in 1..(Len(timeline) - 1) :
        timeline[i] = "sleep" \/ timeline[i + 1] = "sleep"

\* C22: every network or browser round-trip is followed by a sleep before
\* the next round-trip is issued: no two lookup-API requests of the
\* resolver, and no two page loads of the conference scraper, occur without
\* a sleep between them.
C22_SleepBetweenRoundTrips == Spaced(apiTimeline) /\ Spaced(pageTimeline)

\* the lookup requests alone
C22_ApiRequestsSpaced == Spaced(apiTimeline)

\* the page loads alone
C22_PageLoadsSpaced == Spaced(pageTimeline)

(***************************************************************************)
(* C23: the page-wide anchor scan against the entry-structured pass        *)
(* (checked under SpecDiscovery).                                          *)
(***************************************************************************)
\* the lowercased visible text of the anchor holds one of the four keywords
HasLinkKeyword(a) ==
    \E k \in 1..Len(link_keywords) :
        Contains(Lower(Strip(a.text)), link_keywords[k])

\* the anchor has a URL that passes is_valid_content_link
HasValidUrl(a) == ~Falsy(a.href) /\ is_valid_content_link(a.href)

\* the structured pass of the page found nothing, failed on an entry, or
\* failed as a whole
StructuredPassFailed(page) ==
    \/ page.fault = "lists"
    \/ \E i \in 1..Len(page.entries) : page.entries[i].raises
    \/ StructuredLinks(page.entries) = <<>>

C23_WitnessEntryFails ==
    /\ linksPc = "done"
    /\ seedPage.fault = "none"
    /\ \E e \in 1..Len(seedPage.entries) :
           /\ seedPage.entries[e].raises
           /\ \E i \in 1..Len(contentLinks) :
                  /\ contentLinks[i].url = seedPage.entries[e].tocHref
                  /\ contentLinks[i].section = "additional"

(***************************************************************************)
(* C24: the candidate get_semantic_scholar_paper accepts (checked under    *)
(* SpecResolver).                                                          *)
(***************************************************************************)
\* the candidates the service answered for the cleaned title, in response
\* order
CandidatesFor(cleaned) ==
    IF world.s2[cleaned].status = "ok" THEN world.s2[cleaned].data ELSE <<>>

\* the lowercased title of the candidate is a substring of the cleaned
\* query title, or contains it
SubstringRelated(paper, cleaned) ==
    \/ Contains(cleaned, Lower(paper.title))
    \/ Contains(Lower(paper.title), cleaned)

\* a candidate the claim lets match a non-empty query title: its title is
\* not empty and is related to the query title
Acceptable(paper, cleaned) ==
    /\ cleaned # <<>> => paper.title # <<>>
    /\ SubstringRelated(paper, cleaned)

\* C24: what get_semantic_scholar_paper caches (and returns) for a title is
\* the first candidate, in response order, whose lowercased title is a
\* substring of or contains the cleaned query title, and none when there is
\* no such candidate; a candidate with an empty title, or one unrelated to
\* a non-empty query title, is never the match.
C24_FirstRelatedCandidateCached ==
    \A cleaned \in SearchedTitles :
        (SsPrefix \o cleaned) \in DOMAIN paper_cache =>
            LET candidates == CandidatesFor(cleaned)
                hits == {i \in 1..Len(candidates) :
                             Acceptable(candidates[i], cleaned)}
                cached == paper_cache[SsPrefix \o cleaned]
            IN  IF hits = {} THEN ~cached.found
                ELSE /\ cached.found
                     /\ cached.paper =
                            candidates[CHOOSE i \in hits : \A j \in hits : i <= j]

\* the same for the titles the service answers with no empty-titled
\* candidate
C24_ExceptEmptyTitledCandidates ==
    \A cleaned \in SearchedTitles :
        ((SsPrefix \o cleaned) \in DOMAIN paper_cache
         /\ \A i \in 1..Len(CandidatesFor(cleaned)) :
                CandidatesFor(cleaned)[i].title # <<>>) =>
            LET candidates == CandidatesFor(cleaned)
                hits == {i \in 1..Len(candidates) :
                             Acceptable(candidates[i], cleaned)}
                cached == paper_cache[SsPrefix \o cleaned]
            IN  IF hits = {} THEN ~cached.found
                ELSE /\ cached.found
                     /\ cached.paper =
                            candidates[CHOOSE i \in hits : \A j \in hits : i <= j]

(***************************************************************************)
(* C25: the country extract_country_from_semantic_scholar gives (checked   *)
(* under SpecResolver).                                                    *)
(***************************************************************************)
\* the last call went on to Tier 2: it had a first author for whom the name
\* lookup gave no code
LastCallSearched ==
    /\ lastCall.title # NoneVal
    /\ \E first_author \in {SplitAuthors(lastCall.authors_str)[1]} :
           /\ ~Falsy(first_author)
           /\ Falsy(get_country_from_openalex(
                        lastCall.author_cache, first_author,
                        world.openalex[first_author]).value)

\* the paper the last call matched and handed to
\* extract_country_from_semantic_scholar
LastMatchedPaper == paper_cache[cache_key(lastCall.title)].paper

\* the last call ran extract_country_from_semantic_scholar to its return
LastCallExtracted ==
    /\ LastCallSearched
    /\ paper_cache[cache_key(lastCall.title)].found
    /\ ~lastCall.raised

RECURSIVE AffiliationsInOrder(_)
\* the affiliation strings of the authors, author by author
AffiliationsInOrder(authors) ==
    IF authors = <<>> THEN <<>>
    ELSE (IF Head(authors).kind = "list" THEN Head(authors).affiliations
          ELSE <<>>)
         \o AffiliationsInOrder(Tail(authors))

\* the positions in the table of the keywords the lowercased affiliation
\* contains
KeywordsIn(affiliation) ==
    TheOnly({ {k \in 1..Len(country_keywords) :
                   Contains(lowered, country_keywords[k].keyword)} :
              lowered \in {Lower(affiliation)} })

\* the code the claim names for the paper: that of the first keyword, in
\* table order, of the first affiliation that contains a keyword
ClaimedCountry(paper) ==
    IF paper.authors.kind # "list" THEN NoneVal
    ELSE TheOnly({
             IF \A i \in 1..Len(found) : found[i] = {} THEN NoneVal
             ELSE TheOnly({ country_keywords[
                                CHOOSE k \in found[i] :
                                    \A m \in found[i] : k <= m].country_code :
                      i \in {CHOOSE i \in 1..Len(found) :
                                 /\ found[i] # {}
                                 /\ \A j \in 1..(i - 1) : found[j] = {}} }) :
             found \in {[i \in 1..Len(AffiliationsInOrder(paper.authors.items))
                           |-> KeywordsIn(
                                 AffiliationsInOrder(paper.authors.items)[i])]} })

\* C25: extract_country_from_semantic_scholar returns the code of the first
\* keyword, in the table's order, contained in the first affiliation string
\* (authors in order, affiliations in order) that contains any keyword;
\* affiliations without a keyword are skipped, and it returns none only if
\* no affiliation of any author contains a keyword.
C25_FirstKeywordOfFirstAffiliation ==
    LastCallExtracted => lastCall.result = ClaimedCountry(LastMatchedPaper)

\* a code returned from the first affiliation with a keyword, which holds
\* keywords of two countries
C25_Witness ==
    /\ LastCallExtracted
    /\ lastCall.result # NoneVal
    /\ \E affs \in {AffiliationsInOrder(LastMatchedPaper.authors.items)} :
         \E i \in 1..Len(affs) :
           \E hits \in {KeywordsIn(affs[i])} :
             /\ \A j \in 1..(i - 1) : KeywordsIn(affs[j]) = {}
             /\ \E k, m \in hits :
                    country_keywords[k].country_code
                        # country_keywords[m].country_code

(***************************************************************************)
(* C26: journal records without a title (checked under SpecJournal).       *)
(***************************************************************************)
\* C26: a journal record whose title is empty after trimming is discarded:
\* scrape_papers_from_volume hands no such record on to
\* save_journal_papers_to_db, and no row with an empty name is inserted
\* into journal_papers.
C26_NoUntitledJournalRow ==
    /\ \A i \in 1..Len(volume_papers) : Strip(volume_papers[i].title) # <<>>
    /\ \A i \in 1..Len(journal_papers) : journal_papers[i].name # <<>>

\* records with a title are handed on and inserted under that title
C26_TitledJournalRowsInserted ==
    journalPc = "saved" =>
        /\ Len(journal_papers) = Len(volume_papers)
        /\ \A i \in 1..Len(journal_papers) :
               journal_papers[i].name = volume_papers[i].title

(***************************************************************************)
(* C27: rows per record in one run (checked under SpecRun).                *)
(***************************************************************************)
\* the number of rows of conf_papers that hold the record
RowsOf(rec) == Cardinality({i \in 1..Len(db) : db[i].rec = rec})

\* the number of times the content links of the current seed yielded the
\* record
TimesExtracted(rec) ==
    Cardinality({k \in 1..Len(all_papers) : all_papers[k] = rec})

\* the content links visited so far are those of the current seed, which is
\* the first seed of the run that has content links
FirstSeedWithLinks ==
    Cardinality({v \in 1..Len(visits) : visits[v].kind = "link"}) = linkIdx - 1

\* C27: within one run each record extracted from a content page is written
\* to conf_papers exactly once, however many content links the seed has and
\* wherever the record's link stands: the insert during the extraction, the
\* cumulative saves and the final save leave a single row per record (and
\* never more rows than extractions, whatever the database does).
C27_OneRowPerRecord ==
    FirstSeedWithLinks =>
        \A k \in 1..Len(all_papers) :
            /\ RowsOf(all_papers[k]) <= TimesExtracted(all_papers[k])
            /\ (runPc \in {"next", "done"} /\ dbExists /\ dbFault = NoFault)
               => RowsOf(all_papers[k]) = TimesExtracted(all_papers[k])

(***************************************************************************)
(* C28: the author cache over any sequence of get_author_country calls     *)
(* (checked under SpecResolver).                                           *)
(***************************************************************************)
\* the first author of the call the step made
CalledAuthor == SplitAuthors(lastCall'.authors_str)[1]

\* the step is a call whose Tier 2 gave the code it returned: the name
\* lookup had nothing for the first author and a paper was matched
TierTwoBackfill(a) ==
    /\ calls' = calls + 1
    /\ CalledAuthor = a
    /\ ~lastCall'.raised
    /\ lastCall'.result # NoneVal
    /\ paper_cache'[cache_key(lastCall'.title)].found
    /\ lastCall'.result =
           extract_country_from_semantic_scholar(
               paper_cache'[cache_key(lastCall'.title)].paper).value

\* C28: an entry of author_cache that holds a country code never changes; an
\* entry that holds none changes only by a Tier 2 backfill, to a country
\* code; and when get_author_country returns a code c for first author a,
\* author_cache[a] = c right after the call.
C28_AuthorCacheInvariant ==
    [][ /\ \A a \in DOMAIN author_cache :
               /\ a \in DOMAIN author_cache'
               /\ author_cache[a] # NoneVal => author_cache'[a] = author_cache[a]
               /\ (author_cache[a] = NoneVal /\ author_cache'[a] # NoneVal)
                  => TierTwoBackfill(a) /\ author_cache'[a] = lastCall'.result
        /\ (calls' = calls + 1 /\ ~lastCall'.raised /\ lastCall'.result # NoneVal)
           => /\ CalledAuthor \in DOMAIN author_cache'
              /\ author_cache'[CalledAuthor] = lastCall'.result
      ]_vars

\* an author cached with none by an earlier call has been given the code
\* that the last call returned from Tier 2
C28_Witness ==
    \E a \in DOMAIN lastCall.author_cache :
        /\ lastCall.author_cache[a] = NoneVal
        /\ author_cache[a] # NoneVal
        /\ lastCall.result = author_cache[a]
        /\ SplitAuthors(lastCall.authors_str)[1] = a

(***************************************************************************)
(* C29: the results of get_author_country across the two passes (checked  *)
(* under SpecBatch).                                                       *)
(***************************************************************************)
\* the pair was written to the unresolved list by the batch loop
WasUnresolved(first_author, title) ==
    \E u \in 1..Len(no_country_found) :
        /\ no_country_found[u].author = first_author
        /\ no_country_found[u].title = title

\* C29: get_author_country gives a fixed (title, authors) the same result
\* through the run, so for every country of the second pass no pair of the
\* unresolved list is among the papers collected for it, and the number of
\* papers collected equals the country's counter of the first pass.
C29_SecondPassAgreesWithFirst ==
    \A c \in 1..Len(listed) :
        /\ Len(listed[c].papers) = listed[c].count
        /\ \A p \in 1..Len(listed[c].papers) :
               ~WasUnresolved(listed[c].papers[p].first_author,
                              listed[c].papers[p].title)

\* the same when no code was backfilled for an author the loop had left
\* unresolved
C29_WithoutLateBackfill ==
    (\A u \in 1..Len(no_country_found) :
         author_cache[no_country_found[u].author] = NoneVal) =>
        C29_SecondPassAgreesWithFirst

(***************************************************************************)
(* C30: the resolver script runs to completion (checked under SpecBatch).  *)
(***************************************************************************)
\* every lookup of the batch loop was counted as successful or was written
\* to the unresolved list
LookupsAccounted ==
    total_lookups = successful_lookups + Len(no_country_found)

\* C30: for every finite list of rows, the empty list and a list whose rows
\* all have an empty first author included, the script reaches its end
\* (summary, report, cache statistics, close) without raising, and at the
\* end total_lookups = successful_lookups + the number of unresolved pairs.
C30_BatchRunsToCompletion ==
    /\ batchPc # "crashed"
    /\ batchPc = "done" => LookupsAccounted

\* the accounting alone, in the runs that reach the end
C30_AccountingAtTheEnd ==
    batchPc = "done" => LookupsAccounted

\* the script does not raise when a lookup was made and no matched paper
\* has a null authors value
C30_CompletesAfterALookup ==
    (total_lookups > 0 /\ ~lastCall.raised) => batchPc # "crashed"
=============================================================================
